---- MODULE Spec2Model ----
(***************************************************************************)
(* Validator uptime service: the proof store (db.UptimeStore), the         *)
(* negotiation engine (UptimeService.computeSignedUptime), the             *)
(* generate-and-submit cycle (GenerateAndSubmitUptimeProofs with           *)
(* storeUptimeProofWithRefresh) and the reconciliation pass                *)
(* (SubmitMissingUptimeProofs).                                            *)
(*                                                                         *)
(* Sign (PackValidationUptimeMessage + SubmitAggregateRequest), Submit     *)
(* (ContractClient.SubmitUptimeProof) and the SQL statements of the store  *)
(* are external: each call's outcome is a nondeterministic input.          *)
(***************************************************************************)
EXTENDS Integers, Sequences, FiniteSets, TLC

\* ------------------------------------------------------------------ bounds
\* Largest uptime an observer reports in the model.
MaxSample == 2
\* Longest per-validator sample sequence.
MaxLen == 2
\* Page size of the indexer query (first: 1000 in the program), scaled down.
PageSize == 2
\* The aggregator never signs above this value (caps the unbounded ramp).
MaxUptime == MaxSample + 1
\* Width of an uptime (uint64 in the program), scaled down.
\* const batchSize = 20, scaled down with the lists it cuts.
batchSize == 2
MaxDelegations == 6
WordBits == 6
Word == 2 ^ WordBits
\* The aggregator signs at most this many candidates for one validator in
\* one run of the engine (caps a ramp that wraps around).
MaxSigned == 6

Validators == {"v1", "v2"}
\* A validationID string of a node response that ids.FromString rejects.
MalformedIDs == {"bad"}
\* Distinct quorum signatures the aggregator may return for one payload.
Sigs == {"s1", "s2"}
Uptimes == 0..MaxUptime

\* ---------------------------------------------------------------- messages
\* The uptime payload of an unsigned warp message: (validationID, uptime).
PackValidationUptimeMessage(validationID, uptime) ==
  [vid |-> validationID, uptime |-> uptime]

\* The signed warp message the aggregator returns for an unsigned message:
\* the same payload plus a quorum signature.
SignedMessage(unsigned, sig) ==
  [vid |-> unsigned.vid, uptime |-> unsigned.uptime, sig |-> sig]

Messages == [vid : Validators, uptime : Uptimes, sig : Sigs]
NoMsg == [vid |-> "none", uptime |-> 0, sig |-> "none"]

\* ------------------------------------------------------------------- store
\* A row of uptime_proofs, or NoRow when validation_id has no row.
NoRow == [present |-> FALSE, uptime |-> 0, msg |-> NoMsg]
Row(uptime, msg) == [present |-> TRUE, uptime |-> uptime, msg |-> msg]

refreshPrefix == "refresh_required:"
NoErr == [pfx |-> "", num |-> 0]
Err(pfx) == [pfx |-> pfx, num |-> 0]
RefreshErr(existingUptime) == [pfx |-> refreshPrefix, num |-> existingUptime]

\* Outcomes of the database for one StoreUptimeProof call: every statement
\* executes, the SELECT fails, or the INSERT/UPDATE fails.
DbFaults == {"none", "query", "exec"}

\* One StoreUptimeProof call's outcome: the table after it, the error it
\* returns (NoErr for nil) and the SQL statement that was executed ("none"
\* when no INSERT/UPDATE took effect).
Outcome(tbl, err, stmt) == [table |-> tbl, err |-> err, stmt |-> stmt]

\* Slip: the comparison with the existing uptime is missing.
StoreAlwaysOverwrite(tbl, validationID, uptimeSeconds, signedMessage, fault) ==
  LET existing == tbl[validationID] IN
  IF fault = "query"
    THEN Outcome(tbl, Err("query existing uptime: "), "none")
  ELSE IF fault = "exec"
    THEN Outcome(tbl, Err("update uptime proof: "), "none")
    ELSE Outcome([tbl EXCEPT ![validationID] = Row(uptimeSeconds, signedMessage)],
                 NoErr, IF existing.present THEN "update" ELSE "insert")

\* Slip: an equal uptime is treated as a regression (> only).
StoreRefreshOnEqual(tbl, validationID, uptimeSeconds, signedMessage, fault) ==
  LET existing == tbl[validationID] IN
  IF fault = "query"
    THEN Outcome(tbl, Err("query existing uptime: "), "none")
  ELSE IF ~existing.present
    THEN IF fault = "exec"
           THEN Outcome(tbl, Err("insert uptime proof: "), "none")
           ELSE Outcome([tbl EXCEPT ![validationID] =
                           Row(uptimeSeconds, signedMessage)], NoErr, "insert")
  ELSE IF uptimeSeconds > existing.uptime
    THEN IF fault = "exec"
           THEN Outcome(tbl, Err("update uptime proof: "), "none")
           ELSE Outcome([tbl EXCEPT ![validationID] =
                           Row(uptimeSeconds, signedMessage)], NoErr, "update")
    ELSE Outcome(tbl, RefreshErr(existing.uptime), "none")

\* Slip: the signature refresh has no WHERE validation_id = $1.
StoreRefreshWithoutWhere(tbl, validationID, uptimeSeconds, signedMessage, fault) ==
  LET existing == tbl[validationID] IN
  IF fault = "query"
    THEN Outcome(tbl, Err("query existing uptime: "), "none")
  ELSE IF ~existing.present
    THEN IF fault = "exec"
           THEN Outcome(tbl, Err("insert uptime proof: "), "none")
           ELSE Outcome([tbl EXCEPT ![validationID] =
                           Row(uptimeSeconds, signedMessage)], NoErr, "insert")
  ELSE IF uptimeSeconds > existing.uptime
    THEN IF fault = "exec"
           THEN Outcome(tbl, Err("update uptime proof: "), "none")
           ELSE Outcome([tbl EXCEPT ![validationID] =
                           Row(uptimeSeconds, signedMessage)], NoErr, "update")
  ELSE IF uptimeSeconds = existing.uptime
    THEN IF fault = "exec"
           THEN Outcome(tbl, Err("refresh signed message: "), "none")
           ELSE Outcome([v \in Validators |->
                           IF tbl[v].present
                             THEN [tbl[v] EXCEPT !.msg = signedMessage]
                             ELSE tbl[v]], NoErr, "refresh")
    ELSE Outcome(tbl, RefreshErr(existing.uptime), "none")

\* UptimeStore.StoreUptimeProof (DBClient.StoreUptimeProof is the same
\* statement for statement).
StoreUptimeProof(tbl, validationID, uptimeSeconds, signedMessage, fault) ==
  LET existing == tbl[validationID] IN
  IF fault = "query"
    THEN Outcome(tbl, Err("query existing uptime: "), "none")
  ELSE IF ~existing.present
    THEN IF fault = "exec"
           THEN Outcome(tbl, Err("insert uptime proof: "), "none")
           ELSE Outcome([tbl EXCEPT ![validationID] =
                           Row(uptimeSeconds, signedMessage)], NoErr, "insert")
  ELSE IF uptimeSeconds > existing.uptime
    THEN IF fault = "exec"
           THEN Outcome(tbl, Err("update uptime proof: "), "none")
           ELSE Outcome([tbl EXCEPT ![validationID] =
                           Row(uptimeSeconds, signedMessage)], NoErr, "update")
  ELSE IF uptimeSeconds = existing.uptime
    THEN IF fault = "exec"
           THEN Outcome(tbl, Err("refresh signed message: "), "none")
           ELSE Outcome([tbl EXCEPT ![validationID].msg = signedMessage],
                        NoErr, "refresh")
    ELSE Outcome(tbl, RefreshErr(existing.uptime), "none")

\* Slip: the sentinel is never recognised.
parseNeverRefresh(err) == <<FALSE, 0>>

\* parseRefreshRequired: <<ok, stored>>.
parseRefreshRequired(err) ==
  IF err = NoErr THEN <<FALSE, 0>>
  ELSE IF err.pfx # refreshPrefix THEN <<FALSE, 0>>
  ELSE <<TRUE, err.num>>

\* ----------------------------------------------- the sentinel as text
\* An error value: nil, or an error whose Error() is text, a sequence of
\* characters.
NilError == [nil |-> TRUE, text |-> <<>>]
GoError(text) == [nil |-> FALSE, text |-> text]

\* Slip: the store spells its sentinel differently from the service.
storeRefreshPrefixHyphen ==
  <<"r", "e", "f", "r", "e", "s", "h", "-", "r", "e", "q", "u", "i", "r",
    "e", "d", ":">>

\* const refreshPrefix of the store package.
storeRefreshPrefix ==
  <<"r", "e", "f", "r", "e", "s", "h", "_", "r", "e", "q", "u", "i", "r",
    "e", "d", ":">>

\* const refreshPrefix of the service package.
serviceRefreshPrefix ==
  <<"r", "e", "f", "r", "e", "s", "h", "_", "r", "e", "q", "u", "i", "r",
    "e", "d", ":">>

\* The text of the message the store puts before a driver error (%w).
WrapText(pfx) ==
  CASE pfx = "query existing uptime: " ->
         <<"q", "u", "e", "r", "y", " ", "e", "x", "i", "s", "t", "i", "n", "g",
        " ", "u", "p", "t", "i", "m", "e", ":", " ">>
    [] pfx = "insert uptime proof: " ->
         <<"i", "n", "s", "e", "r", "t", " ", "u", "p", "t", "i", "m", "e", " ",
        "p", "r", "o", "o", "f", ":", " ">>
    [] pfx = "update uptime proof: " ->
         <<"u", "p", "d", "a", "t", "e", " ", "u", "p", "t", "i", "m", "e", " ",
        "p", "r", "o", "o", "f", ":", " ">>
    [] pfx = "refresh signed message: " ->
         <<"r", "e", "f", "r", "e", "s", "h", " ", "s", "i", "g", "n", "e", "d",
        " ", "m", "e", "s", "s", "a", "g", "e", ":", " ">>

\* What a database driver error may read, a text that looks like the
\* sentinel included.
DriverTexts ==
  {<<>>,
   <<"E", "O", "F">>,
   serviceRefreshPrefix \o <<"7">>}

DigitChars == <<"0", "1", "2", "3", "4", "5", "6", "7", "8", "9">>

\* %d of an unsigned integer.
RECURSIVE Decimal(_)
Decimal(n) ==
  IF n < 10 THEN <<DigitChars[n + 1]>>
  ELSE Decimal(n \div 10) \o <<DigitChars[(n % 10) + 1]>>

\* err.Error() of what StoreUptimeProof returns, for the outcome err of the
\* call: fmt.Errorf("%s%d", refreshPrefix, existingUptime) for a regression,
\* the wrapped driver error for a failed statement.
ErrorText(err, driver) ==
  IF err = NoErr THEN NilError
  ELSE IF err.pfx = refreshPrefix
    THEN GoError(storeRefreshPrefix \o Decimal(err.num))
    ELSE GoError(WrapText(err.pfx) \o driver)

\* strings.HasPrefix
HasPrefix(msg, prefix) ==
  Len(msg) >= Len(prefix) /\ SubSeq(msg, 1, Len(prefix)) = prefix

DigitValue(c) == CHOOSE d \in 0..9 : DigitChars[d + 1] = c
IsDigit(c) == \E d \in 0..9 : DigitChars[d + 1] = c

\* The length of the run of digits msg starts with.
RECURSIVE DigitRun(_)
DigitRun(msg) ==
  IF msg = <<>> \/ ~IsDigit(Head(msg)) THEN 0 ELSE 1 + DigitRun(Tail(msg))

\* strconv.ParseUint of a run of digits, base 10.
RECURSIVE ParseUint(_)
ParseUint(digits) ==
  IF digits = <<>> THEN 0
  ELSE 10 * ParseUint(SubSeq(digits, 1, Len(digits) - 1))
         + DigitValue(digits[Len(digits)])

\* fmt.Sscanf(msg, prefix + "%d", &v): <<scanned, v>>.  The text of the
\* format has to match, then the longest run of digits is read; no digit, or
\* a value that does not fit the type, is a scan error.
Sscanf(msg, prefix) ==
  IF ~HasPrefix(msg, prefix) THEN <<FALSE, 0>>
  ELSE LET rest == SubSeq(msg, Len(prefix) + 1, Len(msg))
           n == DigitRun(rest)
       IN IF n = 0 THEN <<FALSE, 0>>
          ELSE IF ParseUint(SubSeq(rest, 1, n)) >= Word THEN <<FALSE, 0>>
          ELSE <<TRUE, ParseUint(SubSeq(rest, 1, n))>>

\* parseRefreshRequired on the text of the error: <<ok, stored>>.
parseRefreshRequiredText(err) ==
  IF err.nil THEN <<FALSE, 0>>
  ELSE IF ~HasPrefix(err.text, serviceRefreshPrefix) THEN <<FALSE, 0>>
  ELSE LET scan == Sscanf(err.text, serviceRefreshPrefix)
       IN IF ~scan[1] THEN <<FALSE, 0>> ELSE <<TRUE, scan[2]>>

\* ------------------------------------------------------------ negotiation
\* next := uint64(math.Ceil(float64(current) * 1.05)); if next <= current
\* { next = current + 1 }.  For the values of the model the float product
\* rounds to ceil(21*current/20).
RampNext(c) ==
  LET next == (21 * c + 19) \div 20 IN
  IF next <= c THEN c + 1 ELSE next

\* uint64(f) for a float f that is not below 2^64: the result depends on
\* the implementation (0 or 2^63 where the conversion instruction reports
\* an overflow, the largest value where it saturates).
OutOfRangeUint == {0, Word \div 2, Word - 1}

\* The values next can take for current = c in uint64 arithmetic: the
\* product is converted back to an integer, and current + 1 wraps.
RampCandidates(c) ==
  IF (21 * c + 19) \div 20 < Word
    THEN {RampNext(c)}
    ELSE { IF n <= c THEN (c + 1) % Word ELSE n : n \in OutOfRangeUint }

\* Successful Sign calls logged so far.
SignedSoFar(t) == Cardinality({ i \in DOMAIN t : t[i].op = "Sign" /\ t[i].ok })

\* Slip: the 5% step is rounded up instead of down.
DecreaseRoundsUp(c) == (19 * c + 19) \div 20

\* Slip: the backward sweep steps down by one second instead of by 5%.
DecreaseByOne(c) == IF c = 0 THEN 0 ELSE c - 1

\* current = uint64(math.Floor(float64(current) * 0.95))
Decrease(c) == (19 * c) \div 20

\* Descending-sorted sample sequences, as FetchAggregatedUptimes returns them.
SampleSeqs ==
  { s \in UNION { [1..n -> 0..MaxSample] : n \in 0..MaxLen } :
      \A i \in 1..Len(s) : \A j \in 1..Len(s) : i < j => s[i] >= s[j] }

\* Sample sequences of an entry whose samples the loop never reads past the
\* first: the empty one and the one-sample ones.
ShortSampleSeqs == { s \in SampleSeqs : Len(s) <= 1 }

\* Validators excluded by cfg.BootstrapValidators.
BootstrapValidators == {"v2"}

\* One external call of a loop iteration, as logged in trace.
Ev(op, uptime, msg, ok, err, refresh) ==
  [op |-> op, uptime |-> uptime, msg |-> msg, ok |-> ok, err |-> err,
   refresh |-> refresh]

\* trySign: pack the payload for (validationID, uptime) and ask the
\* aggregator; sig is the quorum signature of a successful answer.
trySign(validationID, uptime, sig) ==
  SignedMessage(PackValidationUptimeMessage(validationID, uptime), sig)

SignEv(validationID, uptime, ok, sig) ==
  Ev("Sign", uptime, IF ok THEN trySign(validationID, uptime, sig) ELSE NoMsg,
     ok, NoErr, FALSE)

\* Slip: the backward sweep never stops at the stored uptime.
NeverReachedStored(c, storedUptime) == FALSE

\* Slip: the comparison with the stored uptime is strict.
ReachedStoredStrictly(c, storedUptime) == storedUptime > 0 /\ c < storedUptime

\* if storedUptime > 0 && current <= storedUptime
ReachedStored(c, storedUptime) == storedUptime > 0 /\ c <= storedUptime

\* Slip: the refresh path stores the message it was given at the stored
\* uptime instead of re-signing.
RefreshWithoutResign(tbl, v, u, m, fault1, signOk, sig, fault2) ==
  LET r1 == StoreUptimeProof(tbl, v, u, m, fault1)
      p == parseRefreshRequired(r1.err)
      e1 == Ev("Store", u, m, r1.err = NoErr, r1.err, FALSE)
  IN IF ~p[1]
       THEN [table |-> r1.table, err |-> r1.err, calls |-> <<e1>>]
       ELSE LET r2 == StoreUptimeProof(r1.table, v, p[2], m, fault2)
            IN [table |-> r2.table,
                err |-> IF r2.err = NoErr THEN NoErr
                        ELSE Err("refresh store failed: "),
                calls |-> <<e1, Ev("Store", p[2], m, r2.err = NoErr,
                                   r2.err, TRUE)>>]

\* UptimeService.storeUptimeProofWithRefresh: the table after it, the error
\* it returns and the calls it made.
storeUptimeProofWithRefresh(tbl, v, u, m, fault1, signOk, sig, fault2) ==
  LET r1 == StoreUptimeProof(tbl, v, u, m, fault1)
      p == parseRefreshRequired(r1.err)
      e1 == Ev("Store", u, m, r1.err = NoErr, r1.err, FALSE)
  IN IF ~p[1]
       THEN [table |-> r1.table, err |-> r1.err, calls |-> <<e1>>]
       ELSE LET stored == p[2]
                signed == trySign(v, stored, sig)
                e2 == SignEv(v, stored, signOk, sig)
            IN IF ~signOk
                 THEN [table |-> r1.table,
                       err |-> Err("refresh signature failed: "),
                       calls |-> <<e1, e2>>]
                 ELSE LET r2 == StoreUptimeProof(r1.table, v, stored, signed,
                                                 fault2)
                      IN [table |-> r2.table,
                          err |-> IF r2.err = NoErr THEN NoErr
                                  ELSE Err("refresh store failed: "),
                          calls |-> <<e1, e2,
                                      Ev("Store", stored, signed,
                                         r2.err = NoErr, r2.err, TRUE)>>]

\* ---------------------------------------------------------- hex identifiers
\* ids.ID.Hex(): the lowercase hex form of a validationID, without prefix.
Hex(v) ==
  CASE v = "v1" -> <<"a", "1">>
    [] OTHER    -> <<"b", "2">>

LowerOf(c) ==
  CASE c = "A" -> "a" [] c = "B" -> "b" [] c = "X" -> "x"
    [] OTHER -> c

ToLower(str) == [i \in DOMAIN str |-> LowerOf(str[i])]

TrimPrefix0x(str) ==
  IF Len(str) >= 2 /\ str[1] = "0" /\ str[2] = "x"
    THEN SubSeq(str, 3, Len(str)) ELSE str

\* strings.TrimPrefix(strings.ToLower(hexStr), "0x")
normalizeHex(hexStr) == TrimPrefix0x(ToLower(hexStr))

\* validationID strings the indexer may report for the epoch.
IndexerIDs ==
  { <<"0", "x", "a", "1">>, <<"0", "x", "A", "1">>, <<"b", "2">>,
    <<"0", "X", "B", "2">> }

\* The uptime updates the indexer holds for the epoch, in its own order.
IndexerUpdates == UNION { [1..n -> IndexerIDs] : n \in 0..(PageSize + 1) }

\* uptimeUpdates(first: 1000, ...): the query is sent once and answers with
\* the first page.
FirstPage(updates) ==
  IF Len(updates) <= PageSize THEN updates ELSE SubSeq(updates, 1, PageSize)

\* The hex digits of an ID string: an optional 0x or 0X prefix is dropped.
HexDigits(str) ==
  IF Len(str) >= 2 /\ str[1] = "0" /\ str[2] \in {"x", "X"}
    THEN SubSeq(str, 3, Len(str)) ELSE str

\* The ID string names validator v: same hex digits, letter case aside.
NamesValidator(str, v) ==
  /\ Len(HexDigits(str)) = Len(Hex(v))
  /\ \A i \in DOMAIN Hex(v) : LowerOf(HexDigits(str)[i]) = LowerOf(Hex(v)[i])

\* The validators for which the indexer holds an update of the epoch.
ReportedBy(updates) ==
  { v \in Validators : \E i \in DOMAIN updates : NamesValidator(updates[i], v) }

\* Outcomes of the first Submit of a stored message.
SubmitOutcomes == {"ok", "invalid warp message", "other"}

\* Slip: every failure of the first Submit leads to a re-sign.
ReconcileOneResignsOnAnyError(v, proof, first, signOk, sig, secondOk) ==
  LET e1 == Ev("Submit", proof.uptime, proof.msg, first = "ok",
               IF first = "ok" THEN NoErr ELSE Err(first), FALSE)
      signed == trySign(v, proof.uptime, sig)
      e2 == SignEv(v, proof.uptime, signOk, sig)
      e3 == Ev("Submit", proof.uptime, signed, secondOk, NoErr, TRUE)
  IN IF first # "ok"
       THEN IF ~signOk
              THEN [calls |-> <<e1, e2>>, reason |-> "re-sign submit error"]
            ELSE IF ~secondOk
              THEN [calls |-> <<e1, e2, e3>>, reason |-> "resubmit error"]
              ELSE [calls |-> <<e1, e2, e3>>, reason |-> ""]
       ELSE [calls |-> <<e1>>, reason |-> ""]

\* The body of the reconciliation loop for one missing validator: its calls
\* and the reason recorded in failedValidators ("" when none).  The first
\* Submit's event carries the error text the loop inspects.
ReconcileOne(v, proof, first, signOk, sig, secondOk) ==
  LET e1 == Ev("Submit", proof.uptime, proof.msg, first = "ok",
               IF first = "ok" THEN NoErr ELSE Err(first), FALSE)
      signed == trySign(v, proof.uptime, sig)
      e2 == SignEv(v, proof.uptime, signOk, sig)
      e3 == Ev("Submit", proof.uptime, signed, secondOk, NoErr, TRUE)
  IN IF first = "invalid warp message"
       THEN IF ~signOk
              THEN [calls |-> <<e1, e2>>, reason |-> "re-sign submit error"]
            ELSE IF ~secondOk
              THEN [calls |-> <<e1, e2, e3>>, reason |-> "resubmit error"]
              ELSE [calls |-> <<e1, e2, e3>>, reason |-> ""]
     ELSE IF first # "ok"
       THEN [calls |-> <<e1>>, reason |-> "initial error"]
       ELSE [calls |-> <<e1>>, reason |-> ""]

\* ------------------------------------------------------------------- state
VARIABLES
  table,          \* uptime_proofs: validation_id -> row
  call,           \* the latest direct StoreUptimeProof call and its outcome
  pc,             \* position of the running command
  pending,        \* keys of the loop being ranged over, not yet visited
  storedProofs,   \* snapshot returned by GetAllUptimeProofs
  cur,            \* validationID of the loop iteration
  uptimeSamples,  \* its sample sequence
  idx,            \* forward-sweep index (1 is the code's idx == 0)
  current,        \* ramp / backward-sweep candidate
  attempted,      \* a sample signed
  finalUptime,    \* engine result
  signedMsg,      \* engine result (NoMsg is nil)
  lastErr,        \* error logged for the iteration (NoErr when none)
  failedValidators, \* reconciliation failure report
  trace,          \* external calls of the iteration, in order
  result,         \* how the last command ended: "none" (not yet), "nil",
                  \* "error", "panic"
  bootstrapMap,   \* cfg.BootstrapValidators, as the cycle looks it up
  signLimit,      \* the aggregator signs no uptime above this value
  errorLog,       \* error logged for each validator by the running cycle
  storeProc,      \* concurrent StoreUptimeProof callers: position and locals
  fetchPc,        \* FetchAggregatedUptimes: "idle", "waiting", "returned"
  task,           \* its per-endpoint goroutines: position and locals
  mu,             \* holder of result's mutex, "free" when unlocked
  wg,             \* the WaitGroup counter
  data,           \* result.data: validationID -> samples (<<>>: no entry)
  indexer,        \* the validators the indexer reported on when last queried
  accepted,       \* history: validators with a Submit accepted in a cycle
  errText,        \* the error a StoreUptimeProof call returned, as text
  parsed,         \* what parseRefreshRequired made of it
  delegations,    \* DelegationClient.ResolveRewards: its argument
  delegationIDs,  \* the IDs it parsed, in order
  batchStart,     \* its loop variable i (1 is the code's 0)
  sent,           \* the batches SendTransaction accepted, in order
  resolveErr      \* what it returned: "running", "nil" or the error

\* State of the components that run outside the sequential pipeline.
concVars == <<storeProc, fetchPc, task, mu, wg, data>>
\* parseRefreshRequired has not been applied to errText.
NotParsed == <<FALSE, Word>>

textVars == <<errText, parsed>>
batchVars == <<delegations, delegationIDs, batchStart, sent, resolveErr>>
auxVars == <<textVars, batchVars>>
sideVars == <<concVars, indexer, accepted, auxVars>>

vars == <<table, call, pc, pending, storedProofs, cur, uptimeSamples, idx,
          current, attempted, finalUptime, signedMsg, lastErr,
          failedValidators, trace, result, bootstrapMap, signLimit, errorLog,
          sideVars>>

cmdVars == <<pc, pending, storedProofs, cur, uptimeSamples, idx, current,
             attempted, finalUptime, signedMsg, lastErr, failedValidators,
             trace, result, bootstrapMap, signLimit, errorLog>>

NoCall == [vid |-> "none", uptime |-> 0, msg |-> NoMsg, fault |-> "none",
           err |-> NoErr, stmt |-> "none"]

EmptyTable == [v \in Validators |-> NoRow]

\* Command instances that share the database.
Procs == {"p1", "p2"}

\* A caller that is not inside StoreUptimeProof.
IdleProc == [pc |-> "idle", vid |-> "none", uptime |-> 0, msg |-> NoMsg,
             existing |-> NoRow]

\* No reconciliation pass is running.
NotQueried == [queried |-> FALSE, ids |-> {}]

\* Node endpoints of the configuration (cfg.AvalancheAPIs).
Endpoints == {"e1", "e2"}

\* A goroutine that has not called its endpoint yet.
NewTask ==
  [pc |-> "started", ok |-> FALSE, reported |-> <<>>, uptimes |-> <<>>, i |-> 1]

NoData == [v \in Validators |-> <<>>]

\* Initial state of the components outside the sequential pipeline.
\* DelegationClient.ResolveRewards has not been called.
BatchIdle ==
  /\ delegationIDs = <<>>
  /\ batchStart = 1
  /\ sent = <<>>
  /\ resolveErr = "running"

SideInit ==
  /\ storeProc = [p \in Procs |-> IdleProc]
  /\ fetchPc = "idle"
  /\ task = [e \in Endpoints |-> NewTask]
  /\ mu = "free"
  /\ wg = 0
  /\ data = NoData
  /\ indexer = NotQueried
  /\ accepted = {}
  /\ errText = NilError
  /\ parsed = NotParsed
  /\ delegations = <<>>
  /\ BatchIdle
NoFailures == [v \in Validators |-> ""]

\* A row a bootstrap validator got before it was put on the skip-list.
EarlierRow == Row(2, trySign("v2", 2, "s1"))

\* State after NewUptimeStore: CREATE TABLE IF NOT EXISTS leaves the table
\* empty on first connect, or as earlier runs left it; no command is running.
Init ==
  /\ table \in {EmptyTable, [EmptyTable EXCEPT !["v2"] = EarlierRow]}
  /\ bootstrapMap = BootstrapValidators
  /\ signLimit = MaxUptime
  /\ errorLog = NoFailures
  /\ SideInit
  /\ result = "none"
  /\ call = NoCall
  /\ pc = "idle"
  /\ pending = {}
  /\ storedProofs = EmptyTable
  /\ cur = "none"
  /\ uptimeSamples = <<>>
  /\ idx = 1
  /\ current = 0
  /\ attempted = FALSE
  /\ finalUptime = 0
  /\ signedMsg = NoMsg
  /\ lastErr = NoErr
  /\ failedValidators = NoFailures
  /\ trace = <<>>

\* ------------------------------------------------- the store on its own
\* A caller invokes StoreUptimeProof directly, with any uptime, for any
\* validator, in any order.  Every call site passes a message signed for
\* the same (validationID, uptime).
StoreCall ==
  \E v \in Validators, u \in Uptimes, sig \in Sigs, fault \in DbFaults :
    LET m == SignedMessage(PackValidationUptimeMessage(v, u), sig)
        r == StoreUptimeProof(table, v, u, m, fault)
    IN /\ table' = r.table
       /\ call' = [vid |-> v, uptime |-> u, msg |-> m, fault |-> fault,
                   err |-> r.err, stmt |-> r.stmt]
       /\ UNCHANGED <<cmdVars, sideVars>>

StoreNext == StoreCall

StoreSpec == Init /\ [][StoreNext]_vars

\* ------------------------------------- the store's error and its parser
\* Uptimes StoreUptimeProof is called with: the lowest, the last of one
\* digit, the first of two, the largest of the type.
SentinelUptimes == {0, 9, 10, Word - 1}

\* The row of v1 holds any uptime of the type, or v1 has no row.
SentinelInit ==
  /\ \E row \in {NoRow} \cup { Row(u, trySign("v1", u, "s1")) :
                                   u \in 0..(Word - 1) } :
       table = [EmptyTable EXCEPT !["v1"] = row]
  /\ bootstrapMap = BootstrapValidators
  /\ signLimit = MaxUptime
  /\ errorLog = NoFailures
  /\ SideInit
  /\ result = "none"
  /\ call = NoCall
  /\ pc = "idle"
  /\ pending = {}
  /\ storedProofs = EmptyTable
  /\ cur = "none"
  /\ uptimeSamples = <<>>
  /\ idx = 1
  /\ current = 0
  /\ attempted = FALSE
  /\ finalUptime = 0
  /\ signedMsg = NoMsg
  /\ lastErr = NoErr
  /\ failedValidators = NoFailures
  /\ trace = <<>>

\* storeUptimeProofWithRefresh, first statement: StoreUptimeProof is called
\* for v1, and a failing statement fails with any of the driver's texts.
SentinelStore ==
  /\ call = NoCall \/ parsed # NotParsed
  /\ \E u \in SentinelUptimes, fault \in DbFaults, driver \in DriverTexts :
       LET m == trySign("v1", u, "s1")
           r == StoreUptimeProof(table, "v1", u, m, fault)
       IN /\ fault = "none" => driver = <<>>
          /\ table' = r.table
          /\ call' = [vid |-> "v1", uptime |-> u, msg |-> m, fault |-> fault,
                      err |-> r.err, stmt |-> r.stmt]
          /\ errText' = ErrorText(r.err, driver)
          /\ parsed' = NotParsed
  /\ UNCHANGED <<cmdVars, concVars, indexer, accepted, batchVars>>

\* ok, stored := parseRefreshRequired(err)
SentinelParse ==
  /\ call # NoCall /\ parsed = NotParsed
  /\ parsed' = parseRefreshRequiredText(errText)
  /\ UNCHANGED <<table, call, errText, cmdVars, concVars, indexer, accepted,
                 batchVars>>

SentinelNext == SentinelStore \/ SentinelParse

SentinelSpec == SentinelInit /\ [][SentinelNext]_vars

\* ------------------------------------------- generate-and-submit cycle
ResetLocals ==
  /\ cur' = "none"
  /\ uptimeSamples' = <<>>
  /\ idx' = 1
  /\ current' = 0
  /\ attempted' = FALSE
  /\ finalUptime' = 0
  /\ signedMsg' = NoMsg
  /\ lastErr' = NoErr
  /\ trace' = <<>>

\* GenerateAndSubmitUptimeProofs up to the loop: the observation map is
\* fetched and the store snapshot is loaded.  pending holds the keys of the
\* map that are valid IDs; a key that is not, if a node reported one, is met
\* by the loop in PanicOnMalformedID.
StartCycle ==
  /\ UNCHANGED <<bootstrapMap, signLimit, concVars, auxVars, accepted>>
  /\ indexer' = NotQueried
  /\ errorLog' = NoFailures
  /\ pc = "idle"
  /\ \E keys \in SUBSET Validators :
       /\ pending' = keys
       /\ storedProofs' = table
       /\ pc' = "loop"
  /\ result' = "none"
  /\ failedValidators' = NoFailures
  /\ ResetLocals
  /\ UNCHANGED <<table, call>>

\* GetAllUptimeProofs fails: the command returns "load stored proofs".
StartCycleLoadFails ==
  /\ UNCHANGED <<bootstrapMap, signLimit, errorLog, concVars, auxVars, accepted>>
  /\ indexer' = NotQueried
  /\ pc = "idle"
  /\ result' = "error"
  /\ failedValidators' = NoFailures
  /\ ResetLocals
  /\ UNCHANGED <<table, call, pc, pending, storedProofs>>

\* Slip: the skip-list is not consulted, the validator is negotiated.
SkipBootstrapNegotiates ==
  /\ UNCHANGED <<bootstrapMap, signLimit, errorLog, sideVars>>
  /\ pc = "loop"
  /\ \E v \in pending, samples \in SampleSeqs :
       /\ v \in bootstrapMap
       /\ Len(samples) > 0
       /\ pending' = pending \ {v}
       /\ cur' = v
       /\ uptimeSamples' = samples
       /\ idx' = 1 /\ current' = 0 /\ attempted' = FALSE
       /\ finalUptime' = 0 /\ signedMsg' = NoMsg /\ lastErr' = NoErr
       /\ trace' = <<>>
       /\ pc' = "forward"
  /\ UNCHANGED <<table, call, storedProofs, failedValidators, result>>

\* Slip: a validator without samples is reported as a failure.
SkipNoSamplesLogsError ==
  /\ UNCHANGED <<bootstrapMap, signLimit, sideVars>>
  /\ pc = "loop"
  /\ \E v \in pending :
       /\ v \notin bootstrapMap
       /\ pending' = pending \ {v}
       /\ cur' = v
       /\ uptimeSamples' = <<>>
       /\ idx' = 1 /\ current' = 0 /\ attempted' = FALSE
       /\ finalUptime' = 0 /\ signedMsg' = NoMsg
       /\ lastErr' = Err("could not get any valid signature")
       /\ errorLog' = [errorLog EXCEPT ![v] =
                         "could not get any valid signature"]
       /\ trace' = <<>>
  /\ UNCHANGED <<table, call, pc, storedProofs, failedValidators, result>>

\* Loop iteration for a bootstrap validator, whatever its samples: skipped.
SkipBootstrap ==
  /\ UNCHANGED <<bootstrapMap, signLimit, errorLog, sideVars>>
  /\ pc = "loop"
  /\ \E v \in pending, samples \in ShortSampleSeqs :
       /\ v \in bootstrapMap
       /\ pending' = pending \ {v}
       /\ cur' = v
       /\ uptimeSamples' = samples
       /\ idx' = 1 /\ current' = 0 /\ attempted' = FALSE
       /\ finalUptime' = 0 /\ signedMsg' = NoMsg /\ lastErr' = NoErr
       /\ trace' = <<>>
  /\ UNCHANGED <<table, call, pc, storedProofs, failedValidators, result>>

\* Loop iteration for a validator without samples: skipped.
SkipNoSamples ==
  /\ UNCHANGED <<bootstrapMap, signLimit, errorLog, sideVars>>
  /\ pc = "loop"
  /\ \E v \in pending :
       /\ v \notin bootstrapMap
       /\ pending' = pending \ {v}
       /\ cur' = v
       /\ uptimeSamples' = <<>>
       /\ idx' = 1 /\ current' = 0 /\ attempted' = FALSE
       /\ finalUptime' = 0 /\ signedMsg' = NoMsg /\ lastErr' = NoErr
       /\ trace' = <<>>
  /\ UNCHANGED <<table, call, pc, storedProofs, failedValidators, result>>

\* Slip: the validator stays among the keys still to visit, so the loop
\* comes back to it with the snapshot of the cycle's start.
BeginNegotiationKeepsPending ==
  /\ UNCHANGED <<bootstrapMap, signLimit, errorLog, sideVars>>
  /\ pc = "loop"
  /\ \E v \in pending, samples \in SampleSeqs :
       /\ v \in Validators
       /\ v \notin bootstrapMap
       /\ Len(samples) > 0
       /\ pending' = pending
       /\ cur' = v
       /\ uptimeSamples' = samples
       /\ idx' = 1 /\ current' = 0 /\ attempted' = FALSE
       /\ finalUptime' = 0 /\ signedMsg' = NoMsg /\ lastErr' = NoErr
       /\ trace' = <<>>
       /\ pc' = "forward"
  /\ UNCHANGED <<table, call, storedProofs, failedValidators, result>>

\* Loop iteration that enters computeSignedUptime with the validator's
\* descending samples.
BeginNegotiation ==
  /\ UNCHANGED <<bootstrapMap, signLimit, errorLog, sideVars>>
  /\ pc = "loop"
  /\ \E v \in pending, samples \in SampleSeqs :
       /\ v \in Validators
       /\ v \notin bootstrapMap
       /\ Len(samples) > 0
       /\ pending' = pending \ {v}
       /\ cur' = v
       /\ uptimeSamples' = samples
       /\ idx' = 1 /\ current' = 0 /\ attempted' = FALSE
       /\ finalUptime' = 0 /\ signedMsg' = NoMsg /\ lastErr' = NoErr
       /\ trace' = <<>>
       /\ pc' = "forward"
  /\ UNCHANGED <<table, call, storedProofs, failedValidators, result>>

\* The range loop reaches a key that is no valid ID (map order is random,
\* so this can be any iteration): the first trySign of computeSignedUptime
\* reaches ids.FromStringOrPanic in PackValidationUptimeMessage and the
\* process dies; the validators still pending are never visited.
PanicOnMalformedID ==
  /\ UNCHANGED <<bootstrapMap, signLimit, errorLog, sideVars>>
  /\ pc = "loop"
  /\ \E v \in MalformedIDs, samples \in ShortSampleSeqs :
       /\ v \notin bootstrapMap
       /\ Len(samples) > 0
       /\ pending' = pending
       /\ cur' = v
       /\ uptimeSamples' = samples
       /\ idx' = 1 /\ current' = 0 /\ attempted' = FALSE
       /\ finalUptime' = 0 /\ signedMsg' = NoMsg /\ lastErr' = NoErr
       /\ trace' = <<>>
  /\ pc' = "idle"
  /\ result' = "panic"
  /\ UNCHANGED <<table, call, storedProofs, failedValidators>>

\* The loop is over: the command returns nil.
EndCycle ==
  /\ UNCHANGED <<bootstrapMap, signLimit, sideVars>>
  /\ errorLog' = NoFailures
  /\ pc = "loop"
  /\ pending = {}
  /\ pc' = "idle"
  /\ result' = "nil"
  /\ storedProofs' = EmptyTable
  /\ failedValidators' = NoFailures
  /\ ResetLocals
  /\ UNCHANGED <<table, call, pending>>

\* Slip: the upward ramp is entered after whichever sample signs (the test
\* idx == 0 is missing).
ForwardSignRampsFromAnySample ==
  /\ UNCHANGED <<bootstrapMap, signLimit, errorLog, sideVars>>
  /\ pc = "forward"
  /\ \E ok \in BOOLEAN, sig \in Sigs :
       LET sample == uptimeSamples[idx] IN
       /\ trace' = Append(trace, SignEv(cur, sample, ok, sig))
       /\ IF ok
            THEN /\ attempted' = TRUE
                 /\ signedMsg' = trySign(cur, sample, sig)
                 /\ finalUptime' = sample
                 /\ idx' = idx
                 /\ pc' = "ramp" /\ current' = sample
            ELSE /\ UNCHANGED <<attempted, signedMsg, finalUptime>>
                 /\ IF idx < Len(uptimeSamples)
                      THEN idx' = idx + 1 /\ pc' = pc /\ current' = current
                      ELSE /\ idx' = idx
                           /\ pc' = "backward"
                           /\ current' = uptimeSamples[Len(uptimeSamples)]
  /\ UNCHANGED <<table, call, pending, storedProofs, cur, uptimeSamples,
                 lastErr, failedValidators, result>>

\* Slip: the highest sample is kept as signed, without the upward ramp.
ForwardSignNeverRamps ==
  /\ UNCHANGED <<bootstrapMap, signLimit, errorLog, sideVars>>
  /\ pc = "forward"
  /\ \E ok \in BOOLEAN, sig \in Sigs :
       LET sample == uptimeSamples[idx] IN
       /\ trace' = Append(trace, SignEv(cur, sample, ok, sig))
       /\ IF ok
            THEN /\ attempted' = TRUE
                 /\ signedMsg' = trySign(cur, sample, sig)
                 /\ finalUptime' = sample
                 /\ idx' = idx
                 /\ pc' = "submit" /\ current' = current
            ELSE /\ UNCHANGED <<attempted, signedMsg, finalUptime>>
                 /\ IF idx < Len(uptimeSamples)
                      THEN idx' = idx + 1 /\ pc' = pc /\ current' = current
                      ELSE /\ idx' = idx
                           /\ pc' = "backward"
                           /\ current' = uptimeSamples[Len(uptimeSamples)]
  /\ UNCHANGED <<table, call, pending, storedProofs, cur, uptimeSamples,
                 lastErr, failedValidators, result>>

\* Slip: the forward sweep goes on to the next sample after a lower sample
\* signed (the break that ends the loop is missing).
ForwardSignWithoutBreak ==
  /\ UNCHANGED <<bootstrapMap, signLimit, errorLog, sideVars>>
  /\ pc = "forward"
  /\ \E ok \in BOOLEAN, sig \in Sigs :
       LET sample == uptimeSamples[idx] IN
       /\ trace' = Append(trace, SignEv(cur, sample, ok, sig))
       /\ IF ok
            THEN /\ attempted' = TRUE
                 /\ signedMsg' = trySign(cur, sample, sig)
                 /\ finalUptime' = sample
                 /\ IF idx = 1
                      THEN pc' = "ramp" /\ current' = sample /\ idx' = idx
                      ELSE /\ current' = current
                           /\ IF idx < Len(uptimeSamples)
                                THEN idx' = idx + 1 /\ pc' = pc
                                ELSE idx' = idx /\ pc' = "submit"
            ELSE /\ UNCHANGED <<attempted, signedMsg, finalUptime>>
                 /\ IF idx < Len(uptimeSamples)
                      THEN idx' = idx + 1 /\ pc' = pc /\ current' = current
                      ELSE /\ idx' = idx
                           /\ pc' = IF attempted THEN "submit" ELSE "backward"
                           /\ current' = uptimeSamples[Len(uptimeSamples)]
  /\ UNCHANGED <<table, call, pending, storedProofs, cur, uptimeSamples,
                 lastErr, failedValidators, result>>

\* Forward sweep: trySign(sample) for the sample at idx.
ForwardSign ==
  /\ UNCHANGED <<bootstrapMap, signLimit, errorLog, sideVars>>
  /\ pc = "forward"
  /\ \E ok \in BOOLEAN, sig \in Sigs :
       LET sample == uptimeSamples[idx] IN
       /\ trace' = Append(trace, SignEv(cur, sample, ok, sig))
       /\ IF ok
            THEN /\ attempted' = TRUE
                 /\ signedMsg' = trySign(cur, sample, sig)
                 /\ finalUptime' = sample
                 /\ idx' = idx
                 /\ IF idx = 1
                      THEN pc' = "ramp" /\ current' = sample
                      ELSE pc' = "submit" /\ current' = current
            ELSE /\ UNCHANGED <<attempted, signedMsg, finalUptime>>
                 /\ IF idx < Len(uptimeSamples)
                      THEN idx' = idx + 1 /\ pc' = pc /\ current' = current
                      ELSE /\ idx' = idx
                           /\ pc' = "backward"
                           /\ current' = uptimeSamples[Len(uptimeSamples)]
  /\ UNCHANGED <<table, call, pending, storedProofs, cur, uptimeSamples,
                 lastErr, failedValidators, result>>

\* Slip: the ramp raises finalUptime but keeps the first signed message.
RampSignKeepsFirstMessage ==
  /\ UNCHANGED <<bootstrapMap, signLimit, errorLog, sideVars>>
  /\ pc = "ramp"
  /\ \E ok \in BOOLEAN, sig \in Sigs, next \in RampCandidates(current) :
       /\ ok => next <= signLimit /\ SignedSoFar(trace) < MaxSigned
       /\ trace' = Append(trace, SignEv(cur, next, ok, sig))
       /\ IF ok
            THEN /\ current' = next
                 /\ finalUptime' = next
                 /\ pc' = pc
                 /\ UNCHANGED signedMsg
            ELSE /\ pc' = "submit"
                 /\ UNCHANGED <<current, finalUptime, signedMsg>>
  /\ UNCHANGED <<table, call, pending, storedProofs, cur, uptimeSamples, idx,
                 attempted, lastErr, failedValidators, result>>

\* Upward ramp: trySign(next); the aggregator refuses above signLimit.
RampSign ==
  /\ UNCHANGED <<bootstrapMap, signLimit, errorLog, sideVars>>
  /\ pc = "ramp"
  /\ \E ok \in BOOLEAN, sig \in Sigs, next \in RampCandidates(current) :
       /\ ok => next <= signLimit /\ SignedSoFar(trace) < MaxSigned
       /\ trace' = Append(trace, SignEv(cur, next, ok, sig))
       /\ IF ok
            THEN /\ current' = next
                 /\ finalUptime' = next
                 /\ signedMsg' = trySign(cur, next, sig)
                 /\ pc' = pc
            ELSE /\ pc' = "submit"
                 /\ UNCHANGED <<current, finalUptime, signedMsg>>
  /\ UNCHANGED <<table, call, pending, storedProofs, cur, uptimeSamples, idx,
                 attempted, lastErr, failedValidators, result>>

\* One round of the backward sweep.
BackwardStep ==
  /\ UNCHANGED <<bootstrapMap, signLimit, sideVars>>
  /\ pc = "backward"
  /\ \E ok \in BOOLEAN, sig \in Sigs :
       LET c == Decrease(current)
           storedUptime == IF storedProofs[cur].present
                             THEN storedProofs[cur].uptime ELSE 0
       IN
       /\ current' = c
       /\ IF c = 0
            THEN /\ pc' = "loop"
                 /\ lastErr' = Err("could not get any valid signature")
                 /\ errorLog' = [errorLog EXCEPT ![cur] =
                                   "could not get any valid signature"]
                 /\ UNCHANGED <<finalUptime, signedMsg, trace>>
          ELSE IF ReachedStored(c, storedUptime)
            THEN /\ trace' = Append(trace, SignEv(cur, storedUptime, ok, sig))
                 /\ IF ok
                      THEN /\ finalUptime' = storedUptime
                           /\ signedMsg' = trySign(cur, storedUptime, sig)
                           /\ pc' = "submit"
                           /\ lastErr' = lastErr
                           /\ errorLog' = errorLog
                      ELSE /\ pc' = "loop"
                           /\ lastErr' = Err("could not get any valid signature")
                           /\ errorLog' = [errorLog EXCEPT ![cur] =
                                             "could not get any valid signature"]
                           /\ UNCHANGED <<finalUptime, signedMsg>>
            ELSE /\ trace' = Append(trace, SignEv(cur, c, ok, sig))
                 /\ lastErr' = lastErr
                 /\ errorLog' = errorLog
                 /\ IF ok
                      THEN /\ finalUptime' = c
                           /\ signedMsg' = trySign(cur, c, sig)
                           /\ pc' = "submit"
                      ELSE /\ pc' = pc
                           /\ UNCHANGED <<finalUptime, signedMsg>>
  /\ UNCHANGED <<table, call, pending, storedProofs, cur, uptimeSamples, idx,
                 attempted, failedValidators, result>>

\* Slip: a failed submission does not skip the validator.
SubmitStepWithoutContinue ==
  /\ UNCHANGED <<bootstrapMap, signLimit, concVars, auxVars, indexer>>
  /\ pc = "submit"
  /\ \E ok \in BOOLEAN :
       /\ accepted' = IF ok THEN accepted \cup {cur} ELSE accepted
       /\ trace' = Append(trace, Ev("Submit", finalUptime, signedMsg, ok,
                                    NoErr, FALSE))
       /\ pc' = "store"
       /\ lastErr' = lastErr
       /\ errorLog' = errorLog
  /\ UNCHANGED <<table, call, pending, storedProofs, cur, uptimeSamples, idx,
                 current, attempted, finalUptime, signedMsg, failedValidators,
                 result>>

\* contractCli.SubmitUptimeProof(valID, signedMsg); on failure the
\* validator is skipped.
SubmitStep ==
  /\ UNCHANGED <<bootstrapMap, signLimit, concVars, auxVars, indexer>>
  /\ pc = "submit"
  /\ \E ok \in BOOLEAN :
       /\ accepted' = IF ok THEN accepted \cup {cur} ELSE accepted
       /\ trace' = Append(trace, Ev("Submit", finalUptime, signedMsg, ok,
                                    NoErr, FALSE))
       /\ IF ok
            THEN pc' = "store" /\ lastErr' = lastErr /\ errorLog' = errorLog
            ELSE /\ pc' = "loop"
                 /\ lastErr' = Err("contract submission failed")
                 /\ errorLog' = [errorLog EXCEPT ![cur] =
                                   "contract submission failed"]
  /\ UNCHANGED <<table, call, pending, storedProofs, cur, uptimeSamples, idx,
                 current, attempted, finalUptime, signedMsg, failedValidators,
                 result>>

\* storeUptimeProofWithRefresh(valID, finalUptime, signedMsg); its error is
\* logged and the loop goes on.
StoreStep ==
  /\ UNCHANGED <<bootstrapMap, signLimit, sideVars>>
  /\ pc = "store"
  /\ \E fault1 \in DbFaults, signOk \in BOOLEAN, sig \in Sigs,
        fault2 \in DbFaults :
       LET r == storeUptimeProofWithRefresh(table, cur, finalUptime, signedMsg,
                                            fault1, signOk, sig, fault2)
       IN /\ table' = r.table
          /\ lastErr' = r.err
          /\ errorLog' = IF r.err = NoErr THEN errorLog
                          ELSE [errorLog EXCEPT ![cur] =
                                  "failed to store uptime proof"]
          /\ trace' = trace \o r.calls
  /\ pc' = "loop"
  /\ UNCHANGED <<call, pending, storedProofs, cur, uptimeSamples, idx, current,
                 attempted, finalUptime, signedMsg, failedValidators, result>>

\* ------------------------------------------------------- reconciliation
\* SubmitMissingUptimeProofs up to the loop: snapshot, indexer query, and
\* the set difference on normalised hex IDs.
StartRecon ==
  /\ UNCHANGED <<bootstrapMap, signLimit, errorLog, concVars, auxVars, accepted>>
  /\ pc = "idle"
  /\ \E updates \in IndexerUpdates :
       LET response == FirstPage(updates)
           submitted == { normalizeHex(response[i]) : i \in DOMAIN response }
           missing == { v \in Validators :
                          table[v].present
                          /\ normalizeHex(Hex(v)) \notin submitted }
       IN /\ indexer' = [queried |-> TRUE, ids |-> ReportedBy(updates)]
          /\ pending' = missing
          /\ IF missing = {}
               THEN pc' = "idle" /\ result' = "nil"
                    /\ storedProofs' = EmptyTable
               ELSE pc' = "rloop" /\ result' = "none"
                    /\ storedProofs' = table
  /\ failedValidators' = NoFailures
  /\ ResetLocals
  /\ UNCHANGED <<table, call>>

\* Slip: the first failure ends the pass with an error.
ReconcileStepAbortsOnFailure ==
  /\ UNCHANGED <<bootstrapMap, signLimit, errorLog, sideVars>>
  /\ pc = "rloop"
  /\ \E v \in pending, first \in SubmitOutcomes, signOk \in BOOLEAN,
        sig \in Sigs, secondOk \in BOOLEAN :
       LET r == ReconcileOne(v, storedProofs[v], first, signOk, sig, secondOk)
       IN /\ pending' = pending \ {v}
          /\ cur' = v
          /\ trace' = r.calls
          /\ failedValidators' =
               IF r.reason = "" THEN failedValidators
               ELSE [failedValidators EXCEPT ![v] = r.reason]
          /\ IF r.reason = ""
               THEN pc' = pc /\ result' = result
               ELSE pc' = "idle" /\ result' = "error"
  /\ UNCHANGED <<table, call, storedProofs, uptimeSamples, idx, current,
                 attempted, finalUptime, signedMsg, lastErr>>

\* One missing validator: submit the stored message, re-sign and resubmit
\* when it is reported invalid.
ReconcileStep ==
  /\ UNCHANGED <<bootstrapMap, signLimit, errorLog, sideVars>>
  /\ pc = "rloop"
  /\ \E v \in pending, first \in SubmitOutcomes, signOk \in BOOLEAN,
        sig \in Sigs, secondOk \in BOOLEAN :
       LET r == ReconcileOne(v, storedProofs[v], first, signOk, sig, secondOk)
       IN /\ pending' = pending \ {v}
          /\ cur' = v
          /\ trace' = r.calls
          /\ failedValidators' =
               IF r.reason = "" THEN failedValidators
               ELSE [failedValidators EXCEPT ![v] = r.reason]
  /\ UNCHANGED <<table, call, pc, storedProofs, uptimeSamples, idx, current,
                 attempted, finalUptime, signedMsg, lastErr, result>>

\* The reconciliation loop is over: the command returns nil.
EndRecon ==
  /\ UNCHANGED <<bootstrapMap, signLimit, errorLog, concVars, auxVars, accepted>>
  /\ indexer' = NotQueried
  /\ pc = "rloop"
  /\ pending = {}
  /\ pc' = "idle"
  /\ result' = "nil"
  /\ storedProofs' = EmptyTable
  /\ failedValidators' = NoFailures
  /\ ResetLocals
  /\ UNCHANGED <<table, call, pending>>

Next ==
  \/ StartCycle
  \/ StartCycleLoadFails
  \/ SkipBootstrap
  \/ SkipNoSamples
  \/ BeginNegotiation
  \/ PanicOnMalformedID
  \/ EndCycle
  \/ ForwardSign
  \/ RampSign
  \/ BackwardStep
  \/ SubmitStep
  \/ StoreStep
  \/ StartRecon
  \/ ReconcileStep
  \/ EndRecon

Spec == Init /\ [][Next]_vars

\* ------------------------------------------- one run of generate-and-submit
\* The process runs one command and exits.  The database is as earlier runs
\* left it; the skip-list is empty or holds BootstrapValidators.
CycleTables ==
  { [v \in Validators |-> IF v \in have THEN Row(2, trySign(v, 2, "s1"))
                                        ELSE NoRow] :
      have \in {{}, Validators} }

CycleInit ==
  /\ table \in CycleTables
  /\ bootstrapMap \in SUBSET BootstrapValidators
  /\ signLimit = MaxUptime
  /\ errorLog = NoFailures
  /\ SideInit
  /\ result = "none"
  /\ call = NoCall
  /\ pc = "idle"
  /\ pending = {}
  /\ storedProofs = EmptyTable
  /\ cur = "none"
  /\ uptimeSamples = <<>>
  /\ idx = 1
  /\ current = 0
  /\ attempted = FALSE
  /\ finalUptime = 0
  /\ signedMsg = NoMsg
  /\ lastErr = NoErr
  /\ failedValidators = NoFailures
  /\ trace = <<>>

\* The command has not returned yet.
NotReturned == result = "none"

CycleNext ==
  \/ NotReturned /\ StartCycle
  \/ NotReturned /\ StartCycleLoadFails
  \/ SkipBootstrap
  \/ SkipNoSamples
  \/ BeginNegotiation
  \/ PanicOnMalformedID
  \/ EndCycle
  \/ ForwardSign
  \/ RampSign
  \/ BackwardStep
  \/ SubmitStep
  \/ StoreStep

CycleSpec == CycleInit /\ [][CycleNext]_vars

\* ------------------------------------- concurrent StoreUptimeProof calls
\* Two command instances call StoreUptimeProof on the same database.  The
\* function issues its SELECT and its INSERT/UPDATE as two statements on
\* the connection pool, outside any transaction: another caller's
\* statements may run between them.
\*
\* The validationID both instances are storing proofs for.
\* ------------------------------------- the negotiation engine on its own
\* computeSignedUptime(validationID, uptimeSamples, storedProofs) is run on
\* its inputs: sample values where the 5% steps differ from steps of one,
\* the largest value of the type, and stored uptimes between them.
EngineSamples == {0, 1, 20, 21, 40, Word - 1}

EngineSampleSeqs ==
  { q \in UNION { [1..n -> EngineSamples] : n \in 1..(MaxLen + 1) } :
      \A i \in 1..Len(q) : \A j \in 1..Len(q) : i < j => q[i] >= q[j] }

EngineStored == {1, 19, 37}

EngineRows ==
  {NoRow} \cup { Row(u, trySign("v1", u, "s1")) : u \in EngineStored }

EngineInit ==
  /\ \E row \in EngineRows :
       /\ table = [EmptyTable EXCEPT !["v1"] = row]
       /\ storedProofs = table
  /\ uptimeSamples \in EngineSampleSeqs
  /\ cur = "v1"
  /\ pc = "forward"
  /\ signLimit = Word - 1
  /\ bootstrapMap = {}
  /\ errorLog = NoFailures
  /\ SideInit
  /\ result = "none"
  /\ call = NoCall
  /\ pending = {}
  /\ idx = 1
  /\ current = 0
  /\ attempted = FALSE
  /\ finalUptime = 0
  /\ signedMsg = NoMsg
  /\ lastErr = NoErr
  /\ failedValidators = NoFailures
  /\ trace = <<>>

EngineNext ==
  \/ ForwardSign
  \/ RampSign
  \/ BackwardStep

EngineSpec == EngineInit /\ [][EngineNext]_vars

\* The engine is straight-line code in one goroutine and trySign always
\* answers (the aggregator client has a timeout), so a step that can be
\* taken is taken.
EngineFairSpec == EngineSpec /\ WF_vars(EngineNext)

\* ------------------------------------ the engine without its call log
\* The program state of computeSignedUptime holds no record of the calls
\* made; with the log left out of the ramp, a ramp whose every candidate
\* signs is a cycle of finitely many states.
\*
\* Slip: a failed candidate does not end the ramp (the break is missing).
RampRoundIgnoresFailure ==
  /\ UNCHANGED <<bootstrapMap, signLimit, errorLog, sideVars>>
  /\ pc = "ramp"
  /\ \E ok \in BOOLEAN, sig \in Sigs, next \in RampCandidates(current) :
       IF ok
         THEN /\ current' = next
              /\ finalUptime' = next
              /\ signedMsg' = trySign(cur, next, sig)
              /\ pc' = pc
         ELSE /\ pc' = pc
              /\ current' = next
              /\ UNCHANGED <<finalUptime, signedMsg>>
  /\ UNCHANGED <<table, call, pending, storedProofs, cur, uptimeSamples, idx,
                 attempted, lastErr, failedValidators, result, trace>>

\* One round of the ramp loop, the aggregator answering either way at any
\* candidate.
RampRound ==
  /\ UNCHANGED <<bootstrapMap, signLimit, errorLog, sideVars>>
  /\ pc = "ramp"
  /\ \E ok \in BOOLEAN, sig \in Sigs, next \in RampCandidates(current) :
       IF ok
         THEN /\ current' = next
              /\ finalUptime' = next
              /\ signedMsg' = trySign(cur, next, sig)
              /\ pc' = pc
         ELSE /\ pc' = "submit"
              /\ UNCHANGED <<current, finalUptime, signedMsg>>
  /\ UNCHANGED <<table, call, pending, storedProofs, cur, uptimeSamples, idx,
                 attempted, lastErr, failedValidators, result, trace>>

UnloggedNext ==
  \/ ForwardSign
  \/ RampRound
  \/ BackwardStep

\* Every call returns and the goroutine keeps running: a step that can be
\* taken is taken.
UnloggedFairSpec == EngineInit /\ [][UnloggedNext]_vars /\ WF_vars(UnloggedNext)

\* ------------------------------------------------------ resolve-rewards
\* What the delegation client meets for one validator: the delegation
\* query fails, there are no delegations, the resolveRewards transaction
\* fails, or it succeeds.
DelegationOutcomes == {"fetch error", "none", "resolve error", "ok"}

DelegEv(op, ok) == Ev(op, 0, NoMsg, ok, NoErr, FALSE)

\* UptimeService.ResolveRewards up to the loop: the proofs are loaded; with
\* a load error or no proofs the command returns at once.
ResolveStart ==
  /\ UNCHANGED <<bootstrapMap, signLimit, sideVars>>
  /\ pc = "idle"
  /\ errorLog' = NoFailures
  /\ \E loadOk \in BOOLEAN :
       LET unique == { v \in Validators : table[v].present } IN
       IF ~loadOk
         THEN /\ result' = "error"
              /\ UNCHANGED <<pc, pending, storedProofs>>
       ELSE IF unique = {}
         THEN /\ result' = "nil"
              /\ UNCHANGED <<pc, pending, storedProofs>>
         ELSE /\ result' = "none"
              /\ pc' = "resolve"
              /\ pending' = unique
              /\ storedProofs' = table
  /\ failedValidators' = NoFailures
  /\ ResetLocals
  /\ UNCHANGED <<table, call>>

\* One validator of the loop: GetDelegationsForValidator, then
\* delegationCli.ResolveRewards when there are delegations; errors are
\* logged and the loop goes on.
ResolveStep ==
  /\ UNCHANGED <<bootstrapMap, signLimit, sideVars>>
  /\ pc = "resolve"
  /\ \E v \in pending, o \in DelegationOutcomes :
       /\ pending' = pending \ {v}
       /\ cur' = v
       /\ trace' =
            IF o = "fetch error" THEN <<DelegEv("GetDelegations", FALSE)>>
            ELSE IF o = "none" THEN <<DelegEv("GetDelegations", TRUE)>>
            ELSE <<DelegEv("GetDelegations", TRUE),
                   DelegEv("ResolveRewards", o = "ok")>>
       /\ errorLog' =
            IF o = "fetch error"
              THEN [errorLog EXCEPT ![v] = "fetch delegations"]
            ELSE IF o = "resolve error"
              THEN [errorLog EXCEPT ![v] = "resolve rewards"]
              ELSE errorLog
  /\ UNCHANGED <<table, call, pc, storedProofs, uptimeSamples, idx, current,
                 attempted, finalUptime, signedMsg, lastErr, failedValidators,
                 result>>

\* The loop is over: the command returns nil.
ResolveEnd ==
  /\ UNCHANGED <<bootstrapMap, signLimit, errorLog, sideVars>>
  /\ pc = "resolve"
  /\ pending = {}
  /\ pc' = "idle"
  /\ result' = "nil"
  /\ storedProofs' = EmptyTable
  /\ failedValidators' = NoFailures
  /\ ResetLocals
  /\ UNCHANGED <<table, call, pending>>

\* A fresh database, one generate-and-submit run, then resolve-rewards
\* runs.
RewardsInit == CycleInit /\ table = EmptyTable

RewardsNext ==
  \/ NotReturned /\ StartCycle
  \/ NotReturned /\ StartCycleLoadFails
  \/ SkipBootstrap
  \/ SkipNoSamples
  \/ BeginNegotiation
  \/ PanicOnMalformedID
  \/ EndCycle
  \/ ForwardSign
  \/ RampSign
  \/ BackwardStep
  \/ SubmitStep
  \/ StoreStep
  \/ ResolveStart
  \/ ResolveStep
  \/ ResolveEnd

RewardsSpec == RewardsInit /\ [][RewardsNext]_vars

ConcValidators == {"v1"}

\* The SELECT of caller p; of the row it returns the function reads only
\* uptime_seconds (existingMsgBytes is scanned and never used).
StoreSelect(p) ==
  /\ storeProc[p].pc = "idle"
  /\ \E v \in ConcValidators, u \in Uptimes, sig \in Sigs :
       storeProc' = [storeProc EXCEPT ![p] =
                       [pc |-> "selected", vid |-> v, uptime |-> u,
                        msg |-> trySign(v, u, sig),
                        existing |-> [table[v] EXCEPT !.msg = NoMsg]]]
  /\ UNCHANGED <<table, call, cmdVars, fetchPc, task, mu, wg, data, indexer, accepted,
                 auxVars>>

\* The INSERT/UPDATE of caller p, chosen from what its SELECT returned and
\* executed on the table as it is now: the INSERT fails on the primary key
\* when the row exists by now, the UPDATEs carry only WHERE validation_id.
StoreExec(p) ==
  /\ storeProc[p].pc = "selected"
  /\ LET l == storeProc[p]
         seen == [table EXCEPT ![l.vid] = l.existing]
         r == StoreUptimeProof(seen, l.vid, l.uptime, l.msg, "none")
     IN /\ table' =
             CASE r.stmt = "insert" /\ ~table[l.vid].present ->
                    [table EXCEPT ![l.vid] = Row(l.uptime, l.msg)]
               [] r.stmt = "update" ->
                    [table EXCEPT ![l.vid] = Row(l.uptime, l.msg)]
               [] r.stmt = "refresh" ->
                    [table EXCEPT ![l.vid].msg = l.msg]
               [] OTHER -> table
        /\ call' = [vid |-> l.vid, uptime |-> l.uptime, msg |-> l.msg,
                    fault |-> "none",
                    err |-> IF r.stmt = "insert" /\ table[l.vid].present
                              THEN Err("insert uptime proof: ") ELSE r.err,
                    stmt |-> IF r.stmt = "insert" /\ table[l.vid].present
                               THEN "none" ELSE r.stmt]
  /\ storeProc' = [storeProc EXCEPT ![p] = IdleProc]
  /\ UNCHANGED <<cmdVars, fetchPc, task, mu, wg, data, indexer, accepted,
                 auxVars>>

ConcNext == \E p \in Procs : StoreSelect(p) \/ StoreExec(p)

ConcSpec == Init /\ [][ConcNext]_vars

\* ------------------------------------------------ FetchAggregatedUptimes
\* One sample of a node response.
UptimeSample(v, u) == [vid |-> v, uptime |-> u]

\* The validators a node may list in a response body, each once, in the
\* node's order.
ValidatorLists ==
  { q \in UNION { [1..n -> [vid : Validators, uptime : 0..MaxSample]] :
                   n \in 0..Cardinality(Validators) } :
      \A i \in DOMAIN q : \A j \in DOMAIN q : i # j => q[i].vid # q[j].vid }

\* What a call of an endpoint may meet: ok is FALSE when
\* FetchUptimesFromNode returns an error (transport failure, status other
\* than 200, undecodable body, error member, missing result), whatever
\* samples the body carried.
NodeResponses == [ok : BOOLEAN, uptimes : ValidatorLists]

RECURSIVE InsertDesc(_, _)
InsertDesc(x, sorted) ==
  IF sorted = <<>> THEN <<x>>
  ELSE IF x >= Head(sorted) THEN <<x>> \o sorted
  ELSE <<Head(sorted)>> \o InsertDesc(x, Tail(sorted))

\* Slip: the slices are returned in arrival order.
SortNoop(slice) == slice

\* sort.Slice(slice, func(i, j) bool { return slice[i] > slice[j] })
RECURSIVE SortDesc(_)
SortDesc(slice) ==
  IF slice = <<>> THEN <<>>
  ELSE InsertDesc(Head(slice), SortDesc(Tail(slice)))

fetchOther == <<table, call, cmdVars, storeProc, indexer, accepted, auxVars>>

\* The loop over the endpoints: wg.Add(1) and go func for each.
FetchStart ==
  /\ fetchPc = "idle"
  /\ fetchPc' = "waiting"
  /\ wg' = Cardinality(Endpoints)
  /\ task' = [e \in Endpoints |-> NewTask]
  /\ data' = NoData
  /\ mu' = "free"
  /\ UNCHANGED fetchOther

\* Slip: the samples of a failed response are aggregated all the same.
TaskFetchKeepsFailedSamples(e) ==
  /\ task[e].pc = "started"
  /\ \E r \in NodeResponses :
       /\ task' = [task EXCEPT ![e] = [pc |-> "fetched", ok |-> r.ok,
                                       reported |-> r.uptimes,
                                       uptimes |-> r.uptimes, i |-> 1]]
       /\ wg' = wg
  /\ UNCHANGED <<fetchPc, mu, data, fetchOther>>

\* FetchUptimesFromNode(api); on error the goroutine returns (wg.Done is
\* deferred).
TaskFetch(e) ==
  /\ task[e].pc = "started"
  /\ \E r \in NodeResponses :
       IF r.ok
         THEN /\ task' = [task EXCEPT ![e] = [pc |-> "fetched", ok |-> TRUE,
                                              reported |-> r.uptimes,
                                              uptimes |-> r.uptimes, i |-> 1]]
              /\ wg' = wg
         ELSE /\ task' = [task EXCEPT ![e] = [pc |-> "done", ok |-> FALSE,
                                              reported |-> r.uptimes,
                                              uptimes |-> <<>>, i |-> 1]]
              /\ wg' = wg - 1
  /\ UNCHANGED <<fetchPc, mu, data, fetchOther>>

\* Slip: the map is updated without taking the mutex.
TaskLockWithoutMutex(e) ==
  /\ task[e].pc = "fetched"
  /\ mu' = e
  /\ task' = [task EXCEPT ![e].pc = "locked"]
  /\ UNCHANGED <<fetchPc, wg, data, fetchOther>>

\* result.Lock()
TaskLock(e) ==
  /\ task[e].pc = "fetched"
  /\ mu = "free"
  /\ mu' = e
  /\ task' = [task EXCEPT ![e].pc = "locked"]
  /\ UNCHANGED <<fetchPc, wg, data, fetchOther>>

\* One round of the loop over uptimes: append to the validator's slice.
TaskAppend(e) ==
  /\ task[e].pc = "locked"
  /\ task[e].i <= Len(task[e].uptimes)
  /\ LET u == task[e].uptimes[task[e].i]
     IN data' = [data EXCEPT ![u.vid] = Append(data[u.vid], u.uptime)]
  /\ task' = [task EXCEPT ![e].i = task[e].i + 1]
  /\ UNCHANGED <<fetchPc, mu, wg, fetchOther>>

\* result.Unlock() and the deferred wg.Done().
TaskUnlock(e) ==
  /\ task[e].pc = "locked"
  /\ task[e].i > Len(task[e].uptimes)
  /\ mu' = "free"
  /\ task' = [task EXCEPT ![e].pc = "done"]
  /\ wg' = wg - 1
  /\ UNCHANGED <<fetchPc, data, fetchOther>>

\* wg.Wait() returns, every slice is sorted descending, the map is returned.
FetchJoin ==
  /\ fetchPc = "waiting"
  /\ wg = 0
  /\ data' = [v \in Validators |-> SortDesc(data[v])]
  /\ fetchPc' = "returned"
  /\ UNCHANGED <<task, mu, wg, fetchOther>>

FetchNext ==
  \/ FetchStart
  \/ FetchJoin
  \/ \E e \in Endpoints :
       TaskFetch(e) \/ TaskLock(e) \/ TaskAppend(e) \/ TaskUnlock(e)

FetchSpec == Init /\ [][FetchNext]_vars

\* C1: for every validationID and any sequence of sequential
\* StoreUptimeProof calls, with any uptimes in any order, the uptime_seconds
\* of the validator's row never decreases (and the row never disappears):
\* after each call it is at least its value before the call.
C1_StoreNeverDecreases ==
  [][\A v \in Validators :
       table[v].present =>
         table'[v].present /\ table'[v].uptime >= table[v].uptime]_vars

\* A call with an uptime below the stored one has been made.
C1_Witness ==
  /\ call.vid # "none"
  /\ call.fault = "none"
  /\ table[call.vid].present
  /\ call.uptime < table[call.vid].uptime

\* C2: StoreUptimeProof(v, u, m) executes its INSERT/UPDATE exactly when v
\* has no row or u is at least the existing uptime (and the database runs
\* the statement), after which the row holds (u, m); when u is below the
\* existing uptime it returns refresh_required carrying exactly the existing
\* uptime and the whole table is unchanged.
C2_WritesIffNotLower ==
  [][LET c == call'
         existing == table[c.vid]
         notLower == ~existing.present \/ c.uptime >= existing.uptime
     IN /\ c.stmt # "none" => notLower /\ c.fault = "none"
        /\ notLower /\ c.fault = "none" =>
             /\ c.stmt # "none"
             /\ c.err = NoErr
             /\ table'[c.vid] = Row(c.uptime, c.msg)
        /\ ~notLower /\ c.fault # "query" =>
             /\ c.err = RefreshErr(existing.uptime)
             /\ parseRefreshRequired(c.err) = <<TRUE, existing.uptime>>
             /\ c.stmt = "none"
        /\ c.stmt = "none" => table' = table]_vars

\* A regression was refused with the sentinel, and an equal uptime was written.
C2_Witness ==
  /\ call.vid # "none"
  /\ call.err = RefreshErr(table[call.vid].uptime)
  /\ call.uptime < table[call.vid].uptime
  /\ \E w \in Validators : table[w].present /\ table[w].uptime > 0

\* C3: a StoreUptimeProof call whose uptime equals the existing one replaces
\* only the signed message of the row and returns nil, uptime_seconds staying
\* as it was; and whatever the call does, the rows of all other
\* validationIDs are unchanged.
C3_RefreshOnlyMessageAndFrame ==
  [][LET c == call'
         existing == table[c.vid]
     IN /\ existing.present /\ c.uptime = existing.uptime /\ c.fault = "none" =>
             /\ c.err = NoErr
             /\ c.stmt = "refresh"
             /\ table'[c.vid] = [existing EXCEPT !.msg = c.msg]
             /\ table'[c.vid].uptime = existing.uptime
        /\ \A w \in Validators \ {c.vid} : table'[w] = table[w]]_vars

\* An equal-uptime call replaced the message while another validator has a
\* row with a different message.
C3_Witness ==
  /\ call.stmt = "refresh"
  /\ table[call.vid].msg = call.msg
  /\ \E w \in Validators \ {call.vid} :
       table[w].present /\ table[w].msg.sig # call.msg.sig

\* ------------------------------------------------ claims on the pipeline
\* u0 of the iteration: the uptime the snapshot holds for cur, 0 if none.
StoredUptimeOfCur ==
  IF cur \in Validators /\ storedProofs[cur].present
    THEN storedProofs[cur].uptime ELSE 0

\* computeSignedUptime has returned for cur.
EngineReturned ==
  \/ pc \in {"submit", "store"}
  \/ /\ pc = "loop" /\ cur \in Validators /\ cur \notin bootstrapMap
     /\ Len(uptimeSamples) > 0

IsStore(e) == e.op = "Store"
IsRefreshSignal(e) == e.op = "Store" /\ e.err.pfx = refreshPrefix
AcceptedBefore(i, m) ==
  \E j \in 1..(i - 1) : trace[j].op = "Submit" /\ trace[j].ok /\ trace[j].msg = m
SignedBefore(i, m) ==
  \E j \in 1..(i - 1) : trace[j].op = "Sign" /\ trace[j].ok /\ trace[j].msg = m

\* C4: over any sequence of generate-and-submit cycles and reconciliation
\* passes run one after another, whatever the observations and the outcomes
\* of Sign, Submit and the database, no step lowers the uptime_seconds
\* stored for a validator or removes its row.
C4_PipelineNeverDecreases ==
  [][\A v \in Validators :
       LET before == table[v]
           after == table'[v]
       IN before.present => after.present /\ ~(after.uptime < before.uptime)]_vars

\* A cycle tried to store an uptime below the stored one.
C4_Witness ==
  /\ pc = "loop"
  /\ \E i \in DOMAIN trace :
       IsStore(trace[i]) /\ trace[i].uptime < table[cur].uptime

\* C5: in every reachable state of the single-process pipeline the message
\* of each stored row (v, u, m) is one Sign produced for (v, u): its payload
\* is exactly (v, u).
C5_RowPayloadMatches ==
  \A v \in Validators :
    table[v].present =>
      /\ table[v].msg.vid = v
      /\ table[v].msg.uptime = table[v].uptime
      /\ table[v].msg.sig \in Sigs

\* The refresh path has re-signed and written a row.
C5_Witness ==
  /\ pc = "loop"
  /\ \E i \in DOMAIN trace :
       IsStore(trace[i]) /\ trace[i].refresh /\ trace[i].ok
       /\ table[cur] = Row(trace[i].uptime, trace[i].msg)

\* C6: in a generate-and-submit cycle every StoreUptimeProof call on the
\* non-refresh path is preceded, in the same iteration, by a Submit that
\* succeeded with the very same message, itself returned by a successful
\* Sign; no Store call for v comes before a successful Sign and a successful
\* Submit for v.
C6_StoreAfterSubmitOfSameMessage ==
  \A i \in DOMAIN trace :
    IsStore(trace[i]) =>
      /\ \E j \in 1..(i - 1) : trace[j].op = "Sign" /\ trace[j].ok
      /\ \E j \in 1..(i - 1) : trace[j].op = "Submit" /\ trace[j].ok
      /\ ~trace[i].refresh =>
           /\ AcceptedBefore(i, trace[i].msg)
           /\ SignedBefore(i, trace[i].msg)
           /\ trace[i].msg.vid = cur
           /\ trace[i].msg.uptime = trace[i].uptime

\* A non-refresh Store call was made and wrote the row.
C6_Witness ==
  /\ pc = "loop"
  /\ \E i \in DOMAIN trace :
       IsStore(trace[i]) /\ ~trace[i].refresh /\ trace[i].ok
       /\ table[cur].msg = trace[i].msg

\* C7 (as claimed): every proof written to the store during a cycle, the one
\* written on the refresh path included, carries a message that a Submit
\* accepted earlier in the same iteration.
C7_EveryWrittenProofWasSubmitted ==
  \A i \in DOMAIN trace :
    IsStore(trace[i]) /\ trace[i].ok => AcceptedBefore(i, trace[i].msg)

\* C8: if Submit fails for the proof negotiated for v, no Store call is made
\* for v in that cycle and v's row is as the snapshot of the cycle had it.
C8_FailedSubmitStoresNothing ==
  pc \in {"loop", "store"} /\ cur \in Validators
  /\ (\E i \in DOMAIN trace : trace[i].op = "Submit" /\ ~trace[i].ok)
  => /\ \A i \in DOMAIN trace : ~IsStore(trace[i])
     /\ table[cur] = storedProofs[cur]
     /\ pc = "loop"

\* A submission failed for a validator that has a row.
C8_Witness ==
  /\ pc = "loop"
  /\ cur \in Validators
  /\ table[cur].present
  /\ \E i \in DOMAIN trace : trace[i].op = "Submit" /\ ~trace[i].ok

\* C9: when StoreUptimeProof answers refresh_required:u' for v, the
\* orchestrator makes exactly one Sign(v, u') call.  If it succeeds, one
\* Store(v, u', newSigned) follows and, unless the database fails, v's row
\* then holds u' with the new message and no error is reported; if it
\* fails, v's row is unchanged and "refresh signature failed" is reported.
\* Either way the other rows are untouched and the loop goes on.
C9_RefreshRequiredHandledInBand ==
  \A i \in DOMAIN trace :
    IsRefreshSignal(trace[i]) =>
      LET u == trace[i].err.num
          n == Len(trace)
      IN /\ u = StoredUptimeOfCur
         /\ n >= i + 1
         /\ trace[i + 1].op = "Sign" /\ trace[i + 1].uptime = u
         /\ Cardinality({ j \in (i + 1)..n : trace[j].op = "Sign" }) = 1
         /\ trace[i + 1].ok =>
              /\ n = i + 2
              /\ trace[n] = Ev("Store", u, trace[i + 1].msg, trace[n].ok,
                               trace[n].err, TRUE)
              /\ trace[i + 1].msg.vid = cur /\ trace[i + 1].msg.uptime = u
              /\ ~IsRefreshSignal(trace[n])
              /\ trace[n].ok =>
                   /\ table[cur] = Row(u, trace[i + 1].msg)
                   /\ lastErr = NoErr
              /\ ~trace[n].ok =>
                   /\ table[cur] = storedProofs[cur]
                   /\ lastErr = Err("refresh store failed: ")
         /\ ~trace[i + 1].ok =>
              /\ n = i + 1
              /\ table[cur] = storedProofs[cur]
              /\ lastErr = Err("refresh signature failed: ")
         /\ \A w \in Validators \ {cur} : table[w] = storedProofs[w]
         /\ pc = "loop"

\* The refresh path replaced the stored message by a new one at the stored
\* uptime.
C9_Witness ==
  /\ pc = "loop"
  /\ \E i \in DOMAIN trace :
       /\ IsRefreshSignal(trace[i])
       /\ Len(trace) = i + 2
       /\ trace[i + 2].ok
       /\ table[cur].msg # storedProofs[cur].msg
       /\ table[cur].uptime = storedProofs[cur].uptime

\* C10 (as claimed): the uptime the negotiation engine returns is 0 or at
\* least the stored uptime u0.
C10_NeverBelowStored ==
  EngineReturned => finalUptime = 0 \/ finalUptime >= StoredUptimeOfCur

\* C10 (amended): when no sample signs, the uptime the backward sweep
\* returns is 0 (no message) or at least u0; when a sample signs, the
\* returned uptime is a value Sign accepted in this run, whatever u0 is, and
\* comes with a message.
C10_BackwardNeverBelowStored ==
  EngineReturned =>
    /\ ~attempted =>
         /\ finalUptime = 0 \/ finalUptime >= StoredUptimeOfCur
         /\ finalUptime = 0 <=> signedMsg = NoMsg
    /\ attempted =>
         /\ \E j \in DOMAIN trace :
              /\ trace[j].op = "Sign" /\ trace[j].ok
              /\ trace[j].uptime = finalUptime
         /\ signedMsg # NoMsg

\* The backward sweep returned the stored uptime.
C10_Witness ==
  /\ pc = "submit"
  /\ ~attempted
  /\ StoredUptimeOfCur > 0
  /\ finalUptime = StoredUptimeOfCur

\* ------------------------------------- DelegationClient.ResolveRewards
\* How a delegation's ID string parses: to an ID, not as hex, or to more
\* than 32 bytes.
DelegationKinds == {"id", "not hex", "too long"}

\* The delegations of one validator; an entry is known by its position.
DelegationLists ==
  UNION { [1..n -> DelegationKinds] : n \in 0..MaxDelegations }

\* The parse loop: the entries that decode, in order (continue on the rest).
ParseDelegationIDs(list) ==
  LET decodes(i) == list[i] = "id"
  IN SelectSeq([i \in 1..Len(list) |-> i], decodes)

\* The calls of one batch that can fail, by the text put before the error.
BatchErrors ==
  {"get nonce: ", "get gas price: ", "pack tx data: ", "get chain ID: ",
   "sign tx: ", "send tx: "}

BatchInit ==
  /\ table = EmptyTable
  /\ bootstrapMap = BootstrapValidators
  /\ signLimit = MaxUptime
  /\ errorLog = NoFailures
  /\ storeProc = [p \in Procs |-> IdleProc]
  /\ fetchPc = "idle"
  /\ task = [e \in Endpoints |-> NewTask]
  /\ mu = "free"
  /\ wg = 0
  /\ data = NoData
  /\ indexer = NotQueried
  /\ accepted = {}
  /\ errText = NilError
  /\ parsed = NotParsed
  /\ delegations \in DelegationLists
  /\ BatchIdle
  /\ result = "none"
  /\ call = NoCall
  /\ pc = "idle"
  /\ pending = {}
  /\ storedProofs = EmptyTable
  /\ cur = "none"
  /\ uptimeSamples = <<>>
  /\ idx = 1
  /\ current = 0
  /\ attempted = FALSE
  /\ finalUptime = 0
  /\ signedMsg = NoMsg
  /\ lastErr = NoErr
  /\ failedValidators = NoFailures
  /\ trace = <<>>

batchOther ==
  <<table, call, pending, storedProofs, cur, uptimeSamples, idx, current,
    attempted, finalUptime, signedMsg, lastErr, failedValidators, trace,
    result, bootstrapMap, signLimit, errorLog, concVars, indexer, accepted,
    textVars, delegations>>

\* ResolveRewards up to the batch loop.
BatchBegin ==
  /\ pc = "idle" /\ resolveErr = "running"
  /\ LET ids == ParseDelegationIDs(delegations) IN
     IF Len(delegations) = 0
       THEN /\ resolveErr' = "nil"
            /\ UNCHANGED <<pc, delegationIDs, batchStart, sent>>
     ELSE IF Len(ids) = 0
       THEN /\ resolveErr' = "no valid delegation IDs after parsing"
            /\ UNCHANGED <<pc, delegationIDs, batchStart, sent>>
       ELSE /\ pc' = "batch"
            /\ delegationIDs' = ids
            /\ batchStart' = 1
            /\ UNCHANGED <<sent, resolveErr>>
  /\ UNCHANGED batchOther

\* Slip: a batch that fails is logged and the loop goes on to the next.
BatchSendContinuesOnError ==
  /\ pc = "batch"
  /\ \E outcome \in {"sent"} \cup BatchErrors :
       LET last == batchStart + batchSize - 1
           end == IF last > Len(delegationIDs) THEN Len(delegationIDs)
                  ELSE last
           batch == SubSeq(delegationIDs, batchStart, end)
       IN /\ sent' = IF outcome = "sent" THEN Append(sent, batch) ELSE sent
          /\ batchStart' = batchStart + batchSize
          /\ IF batchStart' > Len(delegationIDs)
               THEN pc' = "idle" /\ resolveErr' = "nil"
               ELSE UNCHANGED <<pc, resolveErr>>
  /\ UNCHANGED <<batchOther, delegationIDs>>

\* One round of the batch loop: the transaction for delegationIDs[i:end] is
\* built, signed and sent, or one of the calls fails and its error is
\* returned.
BatchSend ==
  /\ pc = "batch"
  /\ \E outcome \in {"sent"} \cup BatchErrors :
       LET last == batchStart + batchSize - 1
           end == IF last > Len(delegationIDs) THEN Len(delegationIDs)
                  ELSE last
           batch == SubSeq(delegationIDs, batchStart, end)
       IN IF outcome = "sent"
            THEN /\ sent' = Append(sent, batch)
                 /\ batchStart' = batchStart + batchSize
                 /\ IF batchStart' > Len(delegationIDs)
                      THEN pc' = "idle" /\ resolveErr' = "nil"
                      ELSE UNCHANGED <<pc, resolveErr>>
            ELSE /\ pc' = "idle"
                 /\ resolveErr' = outcome
                 /\ UNCHANGED <<sent, batchStart>>
  /\ UNCHANGED <<batchOther, delegationIDs>>

BatchNext == BatchBegin \/ BatchSend

BatchSpec == BatchInit /\ [][BatchNext]_vars

\* ------------------------------------------------ claims on the engine
\* computeSignedUptime returned (0, nil): the cycle logs the error and skips.
EngineFailed ==
  pc = "loop" /\ lastErr = Err("could not get any valid signature")

\* computeSignedUptime has just returned: trace holds exactly its Sign calls.
EngineDone == pc = "submit" \/ EngineFailed

\* Positions of the successful Sign calls of the iteration.
OkSigns == { j \in DOMAIN trace : trace[j].op = "Sign" /\ trace[j].ok }

LastOkSign == CHOOSE j \in OkSigns : \A k \in OkSigns : k <= j

\* The Sign calls of the iteration answered as an oracle that accepts exactly
\* the uptimes up to T would answer.
ConsistentWithThreshold(T) ==
  \A j \in DOMAIN trace :
    trace[j].op = "Sign" => (trace[j].ok <=> trace[j].uptime <= T)

\* C11: when computeSignedUptime returns, it returns a message if and only
\* if one of its Sign calls succeeded, and the returned (uptime, message) is
\* the uptime and the message of the last successful Sign call of the run;
\* without a successful Sign it returns (0, nil).
C11_ResultIsLastSuccessfulSign ==
  EngineDone =>
    /\ signedMsg # NoMsg <=> OkSigns # {}
    /\ OkSigns # {} =>
         /\ finalUptime = trace[LastOkSign].uptime
         /\ signedMsg = trace[LastOkSign].msg
    /\ OkSigns = {} => finalUptime = 0 /\ EngineFailed

\* The ramp succeeded at least once and then failed: several successful
\* Sign calls, the last call a failure.
C11_Witness ==
  /\ pc = "submit"
  /\ Cardinality(OkSigns) >= 2
  /\ ~trace[Len(trace)].ok
  /\ trace[LastOkSign].msg.sig # trace[1].msg.sig

\* C12 (as claimed): with a Sign oracle accepting exactly the uptimes up to
\* T, a run that returns a message returns the largest signable uptime: no
\* uptime above the returned one is signable.
C12_ReturnsLargestSignable ==
  \A T \in Uptimes :
    pc = "submit" /\ ConsistentWithThreshold(T) => finalUptime >= T

\* C12 (amended): with a Sign oracle accepting exactly the uptimes up to T,
\* the returned uptime is signable; when the highest sample signs, the next
\* ramp candidate above the returned uptime is not signable; when only a
\* lower sample signs, the returned uptime is the largest signable sample;
\* when no sample signs, every sample is above T.
C12_LargestAmongCandidatesTried ==
  \A T \in Uptimes :
    pc = "submit" /\ ConsistentWithThreshold(T) =>
      /\ finalUptime <= T
      /\ attempted /\ idx = 1 =>
           /\ RampNext(finalUptime) > T
           /\ finalUptime >= uptimeSamples[1]
      /\ attempted /\ idx > 1 =>
           /\ finalUptime = uptimeSamples[idx]
           /\ \A j \in 1..Len(uptimeSamples) :
                uptimeSamples[j] <= T => uptimeSamples[j] <= finalUptime
      /\ ~attempted =>
           \A j \in 1..Len(uptimeSamples) : uptimeSamples[j] > T

\* Under a threshold oracle the ramp climbed from the highest sample to the
\* threshold.
C12_Witness ==
  /\ pc = "submit"
  /\ ConsistentWithThreshold(2)
  /\ attempted /\ idx = 1
  /\ uptimeSamples[1] < 2
  /\ finalUptime = 2

\* ------------------------------------------------- claims on the cycle
\* Positions inside the body of one loop iteration.
InIteration == pc \in {"forward", "ramp", "backward", "submit", "store"}

\* The loop was entered and no iteration ran: the observation map has no
\* valid ID.  It is empty when the loop also meets no malformed one.
EmptyObservation == pc = "loop" /\ pending = {} /\ cur = "none"

\* C13 (as claimed): in a generate-and-submit run no failure in a
\* validator's iteration (of Sign, Submit or Store) ends the command or drops
\* a validator still to be visited; each loop step visits exactly one
\* pending validator and enters the engine when it is not on the skip-list
\* and has samples; the command ends only when no validator is pending and
\* then returns nil, errors logged or not.
C13_FailureNeverAbortsCycle ==
  [][/\ InIteration =>
          /\ pc' # "idle"
          /\ result' = "none"
          /\ pending' = pending
     /\ pc = "loop" /\ pc' = "idle" => pending = {} /\ result' = "nil"
     /\ pc = "loop" /\ pc' # "idle" =>
          \E v \in pending :
            /\ pending' = pending \ {v}
            /\ cur' = v
            /\ v \notin bootstrapMap /\ uptimeSamples' # <<>> =>
                 pc' = "forward"]_vars

\* C14: while a cycle runs, an iteration for a validator on the skip-list
\* has made no Sign, Submit or Store call and logged no error, whatever its
\* samples; no call of the cycle carries the ID of such a validator; and the
\* rows of the validators on the skip-list are as the snapshot had them.
C14_BootstrapValidatorUntouched ==
  pc \in {"loop", "forward", "ramp", "backward", "submit", "store"} =>
    /\ cur \in bootstrapMap =>
         /\ pc = "loop"
         /\ trace = <<>>
         /\ lastErr = NoErr
    /\ \A i \in DOMAIN trace :
         trace[i].msg # NoMsg => trace[i].msg.vid \notin bootstrapMap
    /\ \A v \in bootstrapMap :
         table[v] = storedProofs[v] /\ errorLog[v] = ""

\* A validator on the skip-list with samples and a stored row was visited.
C14_Witness ==
  /\ pc = "loop"
  /\ cur \in bootstrapMap
  /\ Len(uptimeSamples) > 0
  /\ table[cur].present

\* C15: a cycle whose observation map is empty makes no call, leaves the
\* table alone and its next step returns nil; a loop step for a validator
\* with an empty sample sequence makes no call, logs no error, leaves the
\* table alone and stays in the loop.
C15_NothingObservedNothingDone ==
  [][/\ pc = "idle" /\ pc' = "loop" /\ pending' = {} =>
          /\ trace' = <<>>
          /\ table' = table
          /\ errorLog' = NoFailures
     /\ EmptyObservation /\ cur' \notin MalformedIDs =>
          /\ pc' = "idle"
          /\ result' = "nil"
          /\ table' = table
          /\ trace' = <<>>
          /\ errorLog = NoFailures
     /\ pc = "loop" /\ pc' = "loop" /\ uptimeSamples' = <<>> =>
          /\ trace' = <<>>
          /\ table' = table
          /\ errorLog' = errorLog
          /\ lastErr' = NoErr
          /\ result' = result]_vars

\* An empty observation map met a non-empty store.
C15_Witness ==
  /\ EmptyObservation
  /\ \E v \in Validators : table[v].present

\* ------------------------------------------- claims on concurrent callers
\* C16 (as claimed): with two callers of StoreUptimeProof interleaving their
\* SELECT and INSERT/UPDATE statements in any way, no statement lowers the
\* uptime_seconds stored for a validationID.
C16_ConcurrentStoreNeverDecreases ==
  [][\A p \in Procs :
       storeProc[p].pc = "selected" /\ storeProc'[p].pc = "idle" =>
         LET v == storeProc[p].vid
         IN table[v].present => table'[v].uptime >= table[v].uptime]_vars

\* ---------------------------------------------------------------- C17
\* Number of samples (v, u) in the responses of the endpoints whose call
\* succeeded.
RECURSIVE ReportedCount(_, _, _)
ReportedCount(E, v, u) ==
  IF E = {} THEN 0
  ELSE LET e == CHOOSE x \in E : TRUE
       IN (IF task[e].ok
             THEN Cardinality({ i \in DOMAIN task[e].reported :
                                 task[e].reported[i] = UptimeSample(v, u) })
             ELSE 0)
          + ReportedCount(E \ {e}, v, u)

CountIn(slice, u) == Cardinality({ i \in DOMAIN slice : slice[i] = u })

FetchReturned == fetchPc = "returned"

\* C17: FetchAggregatedUptimes returns only after every per-endpoint task
\* has finished; the returned sequence of each validator holds each sample
\* exactly as often as the successful responses report it (nothing lost,
\* added or deduplicated); and at most one task at a time is inside the
\* section that updates the shared map.
C17_JoinedExactSamplesMutualExclusion ==
  /\ \A e1 \in Endpoints : \A e2 \in Endpoints :
       task[e1].pc = "locked" /\ task[e2].pc = "locked" => e1 = e2
  /\ \A e \in Endpoints : task[e].pc = "locked" => mu = e
  /\ FetchReturned =>
       /\ \A e \in Endpoints : task[e].pc = "done"
       /\ \A v \in Validators :
            /\ \A u \in 0..MaxSample :
                 CountIn(data[v], u) = ReportedCount(Endpoints, v, u)
            /\ \A i \in DOMAIN data[v] : data[v][i] \in 0..MaxSample

\* Both endpoints report the same sample for v1: it is returned twice.
C17_Witness ==
  /\ FetchReturned
  /\ \A e \in Endpoints : task[e].ok /\ task[e].reported = <<UptimeSample("v1", 2)>>
  /\ data["v1"] = <<2, 2>>

\* ---------------------------------------------------------------- C18
RECURSIVE Repeat(_, _)
Repeat(u, n) == IF n = 0 THEN <<>> ELSE <<u>> \o Repeat(u, n - 1)

\* The samples the successful responses report for v, from u downwards:
\* a function of the responses alone, not of their order of arrival.
RECURSIVE DescendingFrom(_, _)
DescendingFrom(v, u) ==
  Repeat(u, ReportedCount(Endpoints, v, u)) \o
    (IF u = 0 THEN <<>> ELSE DescendingFrom(v, u - 1))

\* C18: every returned per-validator sequence is non-increasing, and the
\* returned map is determined by the responses alone, whatever the order
\* in which they arrived.
C18_SortedAndOrderIndependent ==
  FetchReturned =>
    \A v \in Validators :
      /\ \A i \in DOMAIN data[v] : \A j \in DOMAIN data[v] :
           i < j => data[v][i] >= data[v][j]
      /\ data[v] = DescendingFrom(v, MaxSample)

\* e1 reports the lower and e2 the higher sample of v1.
C18_Witness ==
  /\ FetchReturned
  /\ task["e1"].ok /\ task["e1"].reported = <<UptimeSample("v1", 1)>>
  /\ task["e2"].ok /\ task["e2"].reported = <<UptimeSample("v1", 2)>>
  /\ data["v1"] = <<2, 1>>

\* ---------------------------------------------------------------- C19
Succeeded == { e \in Endpoints : task[e].ok }

\* C19: an endpoint whose call failed contributes nothing, whatever its
\* response carried, and does not keep the others' samples from being
\* returned: once every task is done the join is open, every sample of a
\* successful response is in the returned map, a validator in no
\* successful response has no entry, and with no successful response the
\* map is empty.
C19_FailedEndpointDroppedSilently ==
  /\ fetchPc = "waiting" /\ (\A e \in Endpoints : task[e].pc = "done") => wg = 0
  /\ FetchReturned =>
       /\ \A v \in Validators :
            /\ Len(data[v]) =
                 Cardinality({ <<e, i>> \in Succeeded \X (1..Cardinality(Validators)) :
                                 /\ i \in DOMAIN task[e].reported
                                 /\ task[e].reported[i].vid = v })
            /\ (\A e \in Succeeded : \A i \in DOMAIN task[e].reported :
                   task[e].reported[i].vid # v) => data[v] = <<>>
       /\ \A e \in Succeeded : \A i \in DOMAIN task[e].reported :
            CountIn(data[task[e].reported[i].vid], task[e].reported[i].uptime) > 0
       /\ Succeeded = {} => data = NoData

\* e1 fails with a body naming v1, e2 succeeds naming v2 only.
C19_Witness ==
  /\ FetchReturned
  /\ ~task["e1"].ok /\ task["e1"].reported = <<UptimeSample("v1", 2)>>
  /\ task["e2"].ok /\ task["e2"].reported = <<UptimeSample("v2", 1)>>
  /\ data = [NoData EXCEPT !["v2"] = <<1>>]

\* ---------------------------------------------------------------- C20
\* C20: the reconciliation pass selects exactly the validators that have a
\* row in the snapshot and for which the indexer holds no update of the
\* epoch (IDs compared as hex digits, letter case and a 0x prefix aside),
\* and each Submit of the pass is for such a validator and carries its
\* stored message, however many updates the indexer holds.
C20_SubmitsExactlyUnreported ==
  [][/\ pc = "idle" /\ indexer'.queried =>
          pending' = { v \in Validators :
                         table[v].present /\ v \notin indexer'.ids }
     /\ pc = "rloop" /\ pending' # pending =>
          \E v \in pending :
            /\ pending' = pending \ {v}
            /\ storedProofs[v].present
            /\ v \notin indexer.ids
            /\ Len(trace') >= 1
            /\ trace'[1].op = "Submit"
            /\ trace'[1].msg = storedProofs[v].msg]_vars

\* ---------------------------------------------------------------- C21
\* A step of the reconciliation loop: one missing validator is handled.
ReconStep == pc = "rloop" /\ pending' # pending

StaleSignature == Err("invalid warp message")

\* C21: in the reconciliation pass the calls for one missing validator are
\* a Submit of the stored message; then, only if that Submit failed with
\* the stale-signature indication, one Sign at exactly the stored uptime;
\* then, only if that Sign succeeded, one Submit of the newly signed
\* message.  Any other outcome of the first Submit ends the validator's
\* turn: at most two Submit calls and one Sign call.
C21_ResignOnlyAfterStaleSubmit ==
  [][ReconStep =>
       LET v == cur'
           t == trace'
           proof == storedProofs[v]
       IN /\ Len(t) \in 1..3
          /\ t[1].op = "Submit" /\ t[1].msg = proof.msg
          /\ Len(t) >= 2 <=> (~t[1].ok /\ t[1].err = StaleSignature)
          /\ Len(t) >= 2 =>
               /\ t[2].op = "Sign" /\ t[2].uptime = proof.uptime
               /\ Len(t) = 3 <=> t[2].ok
          /\ Len(t) = 3 =>
               /\ t[3].op = "Submit" /\ t[3].msg = t[2].msg
               /\ t[3].msg.vid = v /\ t[3].msg.uptime = proof.uptime]_vars

\* A stale stored message was re-signed and submitted again.
C21_Witness ==
  /\ pc = "rloop"
  /\ Len(trace) = 3
  /\ trace[1].err = StaleSignature
  /\ trace[2].op = "Sign" /\ trace[2].ok
  /\ trace[3].op = "Submit" /\ trace[3].msg # trace[1].msg

\* ---------------------------------------------------------------- C22
\* C22: when the pass ends after a validator's stale message was re-signed
\* and the new message was submitted successfully, the validator's row
\* holds the new message at the same uptime.
C22_ResubmittedProofIsStored ==
  [][pc = "rloop" /\ pc' = "idle" /\ cur \in Validators
       /\ Len(trace) = 3 /\ trace[3].ok =>
         table'[cur] = Row(storedProofs[cur].uptime, trace[3].msg)]_vars

\* ---------------------------------------------------------------- C23
\* C23: a failure for one missing validator does not end the pass: each
\* step handles one missing validator, beginning with a Submit of its
\* stored message, the pass ends only when none is left, and the
\* validator is in the failure report exactly when the last call made for
\* it failed; the entries of the others are kept.
C23_FailureReportedPassContinues ==
  [][/\ ReconStep =>
          /\ cur' \in pending /\ pending' = pending \ {cur'}
          /\ pc' = "rloop" /\ result' = "none"
          /\ trace'[1].op = "Submit"
          /\ failedValidators'[cur'] # "" <=> ~trace'[Len(trace')].ok
          /\ \A w \in Validators \ {cur'} :
               failedValidators'[w] = failedValidators[w]
     /\ pc = "rloop" /\ pc' # "rloop" => pending = {} /\ result' = "nil"]_vars

\* v1 failed earlier in the pass and v2 was handled after it.
C23_Witness ==
  /\ pc = "rloop"
  /\ cur = "v2"
  /\ failedValidators["v1"] # ""
  /\ Len(trace) >= 1 /\ trace[1].op = "Submit"

\* ---------------------------------------------------------------- C25
ResolveRewardsCalled(t) == \E i \in DOMAIN t : t[i].op = "ResolveRewards"

C24_RampNeverWraps ==
  [][pc = "ramp" =>
       LET next == trace'[Len(trace')].uptime
       IN next > current \/ next = Word - 1]_vars

\* ------------------------------------------------ claims on the sweeps
\* The Sign call the step has just logged.
LastCall == trace'[Len(trace')]

\* C26: the forward sweep passes the samples to Sign in the order of the
\* list (descending) and stops at the first sample that signs: when it is at
\* sample idx, exactly the samples before idx were tried, in order, and all
\* failed; it tries sample idx next; after a success it never tries another
\* sample, after a failure it moves to the next sample, and once left the
\* sweep is not entered again.
C26_ForwardSweepStopsAtFirstSigned ==
  [][/\ pc = "forward" =>
          /\ Len(trace) = idx - 1
          /\ \A j \in 1..(idx - 1) :
                /\ trace[j].op = "Sign"
                /\ trace[j].uptime = uptimeSamples[j]
                /\ ~trace[j].ok
          /\ \A j \in 1..(idx - 1) : uptimeSamples[j] >= uptimeSamples[idx]
          /\ trace' = Append(trace, LastCall)
          /\ LastCall.op = "Sign"
          /\ LastCall.uptime = uptimeSamples[idx]
          /\ LastCall.ok => pc' # "forward"
          /\ ~LastCall.ok /\ idx < Len(uptimeSamples) =>
                pc' = "forward" /\ idx' = idx + 1
          /\ ~LastCall.ok /\ idx = Len(uptimeSamples) => pc' # "forward"
     /\ pc # "forward" => pc' # "forward"]_vars

\* The second of three samples was the first to sign: the first failed and
\* the third was never passed to Sign.
C26_Witness ==
  /\ pc = "submit" /\ attempted /\ idx = 2 /\ Len(uptimeSamples) = 3
  /\ Len(trace) = 2 /\ ~trace[1].ok /\ trace[2].ok
  /\ uptimeSamples[3] < uptimeSamples[2]

\* C27: the upward ramp is attempted if and only if the first sample to sign
\* is the highest one.  A forward step that signs the sample at index 0
\* enters the ramp, and every ramp step makes one more Sign call; a forward
\* step that signs a lower sample returns that sample and its message at
\* once (the engine's Sign calls are then exactly the samples up to it).
\* The ramp is only ever running after the highest sample signed.
C27_RampIffHighestSampleSigns ==
  [][/\ pc = "forward" /\ LastCall.ok /\ idx = 1 =>
          pc' = "ramp" /\ current' = uptimeSamples[1]
     /\ pc = "forward" /\ LastCall.ok /\ idx > 1 =>
          /\ pc' = "submit"
          /\ finalUptime' = uptimeSamples[idx]
          /\ signedMsg' = LastCall.msg /\ signedMsg' # NoMsg
          /\ Len(trace') = idx
     /\ pc' = "ramp" =>
          /\ idx' = 1 /\ attempted'
          /\ trace'[1].ok /\ trace'[1].uptime = uptimeSamples[1]
     /\ pc = "ramp" =>
          /\ trace' = Append(trace, LastCall)
          /\ LastCall.op = "Sign"
          /\ LastCall.uptime \in RampCandidates(current)]_vars

\* A lower sample was the first to sign and the engine returned it.
C27_Witness ==
  /\ pc = "submit" /\ attempted /\ idx = 2
  /\ finalUptime = uptimeSamples[2] /\ uptimeSamples[2] < uptimeSamples[1]
  /\ signedMsg = trace[2].msg /\ Len(trace) = 2

\* The least integer not below 1.05 * c.
CeilFivePercentUp(c) ==
  CHOOSE n \in 0..(2 * c + 1) :
    20 * n >= 21 * c /\ \A k \in 0..(2 * c + 1) : 20 * k >= 21 * c => n <= k

\* C28: each ramp candidate is max(ceil(1.05 * current), current + 1), so
\* it is greater than current; a successful Sign makes the candidate the
\* new current and the ramp goes on, a failed Sign ends the ramp, and the
\* engine returns the last candidate that signed with its message.
C28_RampCandidatesIncrease ==
  [][pc = "ramp" =>
       LET up == CeilFivePercentUp(current)
           next == IF up > current + 1 THEN up ELSE current + 1
       IN
       /\ LastCall.op = "Sign"
       /\ LastCall.uptime = next
       /\ LastCall.uptime > current
       /\ finalUptime = current
       /\ LastCall.ok =>
            /\ pc' = "ramp" /\ current' = next
            /\ finalUptime' = next /\ signedMsg' = LastCall.msg
       /\ ~LastCall.ok =>
            /\ pc' = "submit"
            /\ finalUptime' = current /\ signedMsg' = signedMsg
            /\ signedMsg = trace[Len(trace)].msg]_vars

\* C29: the backward sweep is entered if and only if every sample failed in
\* the forward sweep: the step that enters it is the failed Sign of the
\* last sample, after which all samples have been tried and none signed, and
\* it starts from the lowest sample.  Every round first lowers the candidate
\* to floor(0.95 * previous): the first value it can pass to Sign is
\* floor(0.95 * lowest sample), never the lowest sample again.
C29_BackwardSweepFromLowestSample ==
  [][/\ pc = "forward" =>
          (pc' = "backward" <=>
             ~LastCall.ok /\ idx = Len(uptimeSamples))
     /\ pc # "forward" /\ pc' = "backward" => pc = "backward"
     /\ pc = "forward" /\ pc' = "backward" =>
          /\ current' = uptimeSamples[Len(uptimeSamples)]
          /\ Len(trace') = Len(uptimeSamples)
          /\ \A j \in DOMAIN trace' :
                ~trace'[j].ok /\ trace'[j].uptime = uptimeSamples[j]
          /\ ~attempted'
     /\ pc = "backward" =>
          /\ 20 * current' <= 19 * current
          /\ 19 * current < 20 * (current' + 1)
          /\ trace' # trace =>
                /\ trace' = Append(trace, LastCall)
                /\ LastCall.uptime \in {current', StoredUptimeOfCur}]_vars

\* Two rounds of the backward sweep after both samples failed: the sweep
\* has signed floor(0.95 * floor(0.95 * lowest sample)).
C29_Witness ==
  /\ pc = "submit" /\ ~attempted /\ Len(uptimeSamples) = 2
  /\ Len(trace) = 4
  /\ trace[3].uptime = (19 * uptimeSamples[2]) \div 20
  /\ trace[4].uptime = (19 * trace[3].uptime) \div 20
  /\ trace[4].ok /\ finalUptime = trace[4].uptime
  /\ trace[3].uptime < uptimeSamples[2] - 1

\* The backward round just taken ended the engine with the stored uptime
\* signed, or with no signature, according to the answer to its Sign call.
EndsAtStored ==
  /\ trace' = Append(trace, LastCall)
  /\ LastCall.op = "Sign"
  /\ LastCall.uptime = StoredUptimeOfCur
  /\ LastCall.ok =>
       /\ pc' = "submit"
       /\ finalUptime' = StoredUptimeOfCur /\ signedMsg' = LastCall.msg
  /\ ~LastCall.ok =>
       /\ pc' = "loop" /\ finalUptime' = 0 /\ signedMsg' = NoMsg
       /\ lastErr' = Err("could not get any valid signature")

\* C30: with a stored uptime u0 > 0 the backward sweep never passes a value
\* below u0 to Sign, and as soon as the decreasing candidate is less than or
\* equal to u0 it makes exactly one Sign(v, u0) attempt and ends, returning
\* (u0, signed) on success and nothing on failure.
C30_StopsAtStoredUptime ==
  [][pc = "backward" /\ StoredUptimeOfCur > 0 =>
       /\ trace' # trace => LastCall.uptime >= StoredUptimeOfCur
       /\ current' <= StoredUptimeOfCur => EndsAtStored]_vars

\* C30 (amended): with a stored uptime u0 > 0 the backward sweep never
\* passes a value below u0 to Sign; as soon as the decreasing candidate is
\* less than or equal to u0 and is not 0 it makes exactly one Sign(v, u0)
\* attempt and ends; a candidate that reaches 0 ends the sweep without any
\* Sign call, u0 included; a candidate above u0 is itself passed to Sign.
C30_StopsAtStoredUptimeUnlessZero ==
  [][pc = "backward" /\ StoredUptimeOfCur > 0 =>
       /\ trace' # trace => LastCall.uptime >= StoredUptimeOfCur
       /\ current' # 0 /\ current' <= StoredUptimeOfCur => EndsAtStored
       /\ current' = 0 =>
            /\ trace' = trace /\ pc' = "loop"
            /\ finalUptime' = 0 /\ signedMsg' = NoMsg
       /\ current' > StoredUptimeOfCur =>
            /\ trace' = Append(trace, LastCall)
            /\ LastCall.uptime = current']_vars

\* The sweep probed a value above u0, then fell to or below u0 and signed u0.
C30_Witness ==
  /\ pc = "submit" /\ ~attempted /\ StoredUptimeOfCur > 0
  /\ finalUptime = StoredUptimeOfCur
  /\ Len(trace) >= 3
  /\ trace[Len(trace)].uptime = StoredUptimeOfCur /\ trace[Len(trace)].ok
  /\ trace[Len(trace) - 1].uptime > StoredUptimeOfCur
  /\ ~trace[Len(trace) - 1].ok
  /\ current < StoredUptimeOfCur

\* ------------------------------------------------ claims on termination
\* C31: the backward sweep terminates whatever Sign answers.  A round lowers
\* the candidate strictly unless it is already 0; a candidate of 0 ends the
\* sweep at once with uptime 0 and no message, no Sign call made for it; and
\* a sweep that is running always comes to its end.
C31_BackwardSweepTerminates ==
  /\ [][pc = "backward" =>
          /\ current > 0 => current' < current
          /\ current' = 0 =>
               /\ pc' = "loop" /\ trace' = trace
               /\ finalUptime' = 0 /\ signedMsg' = NoMsg
               /\ \A j \in DOMAIN trace : ~trace[j].ok
          /\ pc' = "backward" => current' > 0 /\ ~LastCall.ok]_vars
  /\ (pc = "backward") ~> (pc \in {"submit", "loop"})

\* The sweep went down to 0 from a sample above 1 with every Sign refused.
C31_Witness ==
  /\ pc = "loop" /\ current = 0 /\ finalUptime = 0 /\ signedMsg = NoMsg
  /\ uptimeSamples[Len(uptimeSamples)] > 1
  /\ Len(trace) > Len(uptimeSamples) + 2
  /\ \A j \in DOMAIN trace : ~trace[j].ok

\* ------------------------------------------ claims on independence
\* C32: each validator's outcome in a generate-and-submit cycle is
\* independent of the other validators.  Stated as the conditions under which
\* the row a validator ends with is a function of its own snapshot row,
\* samples and Sign, Submit and Store outcomes only: an iteration changes no
\* row but its own validator's and leaves the snapshot alone; an iteration
\* starts from fresh locals and from the snapshot taken when the cycle
\* began; and whichever iterations came before, every validator of the
\* observation map gets its iteration: the command ends only when none is
\* pending.
C32_ValidatorOutcomesIndependent ==
  [][/\ InIteration =>
          /\ \A w \in Validators \ {cur} : table'[w] = table[w]
          /\ storedProofs' = storedProofs
          /\ cur' = cur /\ pending' = pending
     /\ pc = "loop" => table' = table
     /\ pc = "loop" /\ pc' \in {"loop", "forward"} =>
          /\ storedProofs' = storedProofs
          /\ \E w \in pending : cur' = w /\ pending' = pending \ {w}
          /\ trace' = <<>> /\ idx' = 1 /\ ~attempted'
          /\ finalUptime' = 0 /\ signedMsg' = NoMsg
     /\ pc = "loop" /\ pc' = "idle" => pending = {}]_vars

\* ------------------------------------------------ claims on the sentinel
\* C33: whatever uptime u the row holds, the error StoreUptimeProof returns
\* for a regression is parsed by the orchestrator as RefreshRequired with
\* exactly u; and nothing else the store returns (nil, a failed query,
\* insert or update, whatever the driver's text) is parsed as RefreshRequired.
C33_SentinelRoundTrip ==
  call # NoCall /\ parsed # NotParsed =>
    LET regression ==
                  /\ call.fault # "query"
                  /\ table["v1"].present
                  /\ call.stmt = "none"
                  /\ call.uptime < table["v1"].uptime
    IN /\ regression => parsed = <<TRUE, table["v1"].uptime>>
       /\ ~regression => parsed = <<FALSE, 0>>

\* A regression against a stored uptime of two digits was parsed.
C33_Witness ==
  /\ parsed[1] /\ parsed[2] >= 10 /\ parsed[2] = table["v1"].uptime
  /\ call.uptime < parsed[2]
  /\ Len(errText.text) = Len(storeRefreshPrefix) + 2

\* ------------------------------------------------ claims on the batches
\* The entries of the batches sent so far, one after the other.
RECURSIVE Flatten(_)
Flatten(batches) ==
  IF batches = <<>> THEN <<>> ELSE Head(batches) \o Flatten(Tail(batches))

C35_ReturnsLargestSigned ==
  pc = "submit" =>
    /\ \E j \in OkSigns : trace[j].uptime = finalUptime
    /\ \A j \in OkSigns : trace[j].uptime <= finalUptime

\* ------------------------------------------- claims on the store step
\* C36: when storeUptimeProofWithRefresh returns nil for the engine's result
\* (finalUptime, signedMsg), the validator's row holds the larger of the
\* uptime it held before (if it had a row) and finalUptime, with a message
\* signed for the validator and exactly that uptime; when it returns an
\* error, the row's uptime is what it was, and a validator without a row
\* still has none.
C36_StoreKeepsMaximum ==
  [][pc = "store" =>
       LET prev == table[cur]
           after == table'[cur]
           highest == IF prev.present /\ prev.uptime > finalUptime
                        THEN prev.uptime ELSE finalUptime
       IN /\ lastErr' = NoErr =>
               /\ after.present
               /\ after.uptime = highest
               /\ after.msg # NoMsg
               /\ after.msg.vid = cur /\ after.msg.uptime = highest
          /\ lastErr' # NoErr =>
               /\ after.present = prev.present
               /\ after.uptime = prev.uptime]_vars

\* The engine's result was below the row's uptime and the store step ended
\* without error: the row keeps its uptime with a message signed anew.
C36_Witness ==
  /\ pc = "loop" /\ cur \in Validators /\ lastErr = NoErr
  /\ Len(trace) >= 3 /\ trace[Len(trace)].op = "Store"
  /\ trace[Len(trace)].refresh /\ trace[Len(trace)].ok
  /\ table[cur].present /\ table[cur].uptime > finalUptime
  /\ table[cur].msg = trace[Len(trace)].msg
  /\ table[cur].msg.uptime = table[cur].uptime

\* C37: with two callers of StoreUptimeProof interleaving their statements on
\* the same validationID, every row pairs its uptime with a message signed
\* for that validator and that same uptime; in particular the signature
\* refresh of an equal uptime does not put its message on an uptime the
\* other caller wrote in between.
C37_ConcurrentRowPairsMessage ==
  \A v \in Validators :
    table[v].present =>
      /\ table[v].msg.vid = v
      /\ table[v].msg.uptime = table[v].uptime

\* C38 (as claimed): the negotiation for a validator always comes to its
\* end, whatever Sign answers.
C38_NegotiationAlwaysEnds ==
  (pc \in {"forward", "ramp", "backward"}) ~> (pc \in {"submit", "loop"})

\* C38 (amended): the forward sweep and the backward sweep always come to
\* their end, whatever Sign answers; the ramp ends at the first candidate
\* Sign refuses, and returns the last signed one, and goes on to the next
\* candidate for as long as Sign accepts.
C38_EndsUnlessRampKeepsSigning ==
  /\ (pc = "forward") ~> (pc \in {"ramp", "backward", "submit"})
  /\ (pc = "backward") ~> (pc \in {"submit", "loop"})
  /\ [][pc = "ramp" =>
          \/ /\ pc' = "submit"
             /\ finalUptime' = finalUptime /\ signedMsg' = signedMsg
             /\ finalUptime = current
          \/ /\ pc' = "ramp"
             /\ current' \in RampCandidates(current)
             /\ finalUptime' = current'
             /\ signedMsg' # NoMsg /\ signedMsg'.uptime = current']_vars

\* A ramp from the sample 40 went past the top of the range and ended at
\* the first candidate that was refused.
C38_Witness ==
  /\ pc = "submit" /\ attempted /\ idx = 1
  /\ uptimeSamples[1] = 40 /\ finalUptime < 40

\* ------------------------------------------------ claims on the snapshot
\* C39: in a generate-and-submit cycle of a single process, while a
\* validator is being negotiated the snapshot taken at the start of the
\* cycle agrees with the live table on that validator: both have no row for
\* it, or both hold the same uptime.
C39_SnapshotMatchesLiveRow ==
  pc \in {"forward", "ramp", "backward"} =>
    /\ storedProofs[cur].present = table[cur].present
    /\ storedProofs[cur].uptime = table[cur].uptime
    /\ StoredUptimeOfCur = IF table[cur].present THEN table[cur].uptime ELSE 0

\* v2 is negotiated after the cycle has rewritten v1's row: the snapshot is
\* stale for v1 and still right for v2.
C39_Witness ==
  /\ pc = "backward" /\ cur = "v2"
  /\ table["v1"] # storedProofs["v1"]
  /\ table["v2"].present /\ StoredUptimeOfCur = table["v2"].uptime
  /\ StoredUptimeOfCur > 0
====
